---- MODULE Spec2Model ----
(***************************************************************************)
(* Matching engine of connectup: the Redis-backed profile and match        *)
(* stores, the similarity scorer, the match generator, the Kafka consumer  *)
(* pipeline and the HTTP handlers of the matchmaker.                       *)
(*                                                                         *)
(* Scores are Go float64 values.  TLC has no floating point, so a float64  *)
(* is a record [m, e] standing for m * 2^e, m a 53-bit natural kept as a   *)
(* little-endian sequence of 15-bit limbs (<<>> is zero), and every        *)
(* arithmetic step rounds to nearest, ties to even, as IEEE-754 binary64   *)
(* does.  All values of this program are non-negative and far from the     *)
(* subnormal and overflow ranges.                                          *)
(***************************************************************************)
EXTENDS Integers, Sequences, FiniteSets, TLC

\* ---------------------------------------------------------------------
\* Naturals wider than TLC's integers: little-endian limbs, no high zeros.
\* The operations are written without recursion over the limbs (carries
\* are looked ahead) to keep TLC's evaluation shallow.
\* ---------------------------------------------------------------------
Pow2Tab == <<1, 2, 4, 8, 16, 32, 64, 128, 256, 512, 1024, 2048, 4096, 8192,
             16384, 32768>>

Pow2(n) == Pow2Tab[n + 1]

LimbBits == Len(Pow2Tab) - 1

LimbBase == Pow2(LimbBits)

SetMax(S) == CHOOSE x \in S : \A y \in S : y <= x

\* the element of a one-element set.  Only({F(x) : x \in {e}}) is F(e) with
\* e computed once, before F: the way an intermediate result is held in a
\* local variable
Only(S) == CHOOSE x \in S : TRUE

Limb(a, i) == IF i >= 1 /\ i <= Len(a) THEN a[i] ELSE 0

BigTrim(f) ==
    LET a  == <<>> \o f
        nz == {i \in 1..Len(a) : a[i] # 0}
    IN  IF nz = {} THEN <<>> ELSE SubSeq(a, 1, SetMax(nz))

BigAdd(a, b) ==
    LET n      == (IF Len(a) > Len(b) THEN Len(a) ELSE Len(b)) + 1
        s      == <<>> \o [i \in 1..n |-> Limb(a, i) + Limb(b, i)]
        cin(i) == \E j \in 1..(i - 1) :
                      /\ s[j] >= LimbBase
                      /\ \A k \in (j + 1)..(i - 1) : s[k] = LimbBase - 1
    IN  BigTrim([i \in 1..n |-> (s[i] + (IF cin(i) THEN 1 ELSE 0)) % LimbBase])

\* a - b for a >= b
BigSub(a, b) ==
    LET bin(i) == \E j \in 1..(i - 1) :
                      /\ a[j] < Limb(b, j)
                      /\ \A k \in (j + 1)..(i - 1) : a[k] = Limb(b, k)
    IN  BigTrim([i \in 1..Len(a) |->
                    (a[i] - Limb(b, i) - (IF bin(i) THEN 1 ELSE 0) + LimbBase)
                    % LimbBase])

\* -1, 0, 1 as a < b, a = b, a > b
BigCmp(a, b) ==
    IF Len(a) < Len(b) THEN -1
    ELSE IF Len(a) > Len(b) THEN 1
    ELSE LET d == {i \in 1..Len(a) : a[i] # b[i]}
         IN  IF d = {} THEN 0
             ELSE IF a[SetMax(d)] < b[SetMax(d)] THEN -1 ELSE 1

\* the number whose limb i holds c[i] < LimbBase^2
BigNormalize(c) ==
    BigAdd(BigTrim([i \in 1..Len(c) |-> c[i] % LimbBase]),
           BigTrim(<<0>> \o [i \in 1..Len(c) |-> c[i] \div LimbBase]))

BigMulLimb(a, d) == BigNormalize(<<>> \o [i \in 1..Len(a) |-> a[i] * d])

RECURSIVE SumSeq(_)
SumSeq(s) == IF s = <<>> THEN 0 ELSE Head(s) + SumSeq(Tail(s))

\* column k of the product collects the low halves of the limb products
\* a[i] * b[k+1-i] and the high halves of a[i] * b[k-i]
BigMul(a, b) ==
    LET col(k) == SumSeq(<<>> \o [i \in 1..Len(a) |->
                            ((a[i] * Limb(b, k + 1 - i)) % LimbBase)
                            + ((a[i] * Limb(b, k - i)) \div LimbBase)])
    IN  IF a = <<>> \/ b = <<>> THEN <<>>
        ELSE BigNormalize(<<>> \o [k \in 1..(Len(a) + Len(b)) |-> col(k)])

SmallBitLen(x) ==
    IF x = 0 THEN 0
    ELSE CHOOSE n \in 1..LimbBits : Pow2(n - 1) <= x /\ x < Pow2(n)

BigBitLen(a) ==
    IF a = <<>> THEN 0 ELSE LimbBits * (Len(a) - 1) + SmallBitLen(a[Len(a)])

BigShiftLeft(a, k) ==
    LET j == k \div LimbBits
        p == Pow2(k % LimbBits)
    IN  BigTrim([i \in 1..(Len(a) + j + 1) |->
                    ((Limb(a, i - j) * p) % LimbBase)
                    + ((Limb(a, i - j - 1) * p) \div LimbBase)])

\* floor(a / 2^k), and whether a non-zero bit was shifted out
BigShiftRight(a, k) ==
    LET j == k \div LimbBits
        s == k % LimbBits
    IN  [q      |-> BigTrim([i \in 1..Len(a) |->
                                (Limb(a, i + j) \div Pow2(s))
                                + ((Limb(a, i + j + 1) % Pow2(s)) * Pow2(LimbBits - s))]),
         sticky |-> \/ \E i \in 1..Len(a) : i <= j /\ a[i] # 0
                    \/ Limb(a, j + 1) % Pow2(s) # 0]

\* One quotient limb of schoolbook long division: the largest d with
\* d * b <= r, for r < b * LimbBase and the high limb of b at least
\* LimbBase / 2; the estimate from the two high limbs of r is at most 2
\* too large
BigQuotLimb(r, b) ==
    LET n    == Len(b)
        top  == Limb(r, n + 1) * LimbBase + Limb(r, n)
        est  == top \div b[n]
        qhat == IF est > LimbBase - 1 THEN LimbBase - 1 ELSE est
    IN  CHOOSE d \in {qhat, qhat - 1, qhat - 2} :
            /\ d >= 0
            /\ BigCmp(BigMulLimb(b, d), r) <= 0
            /\ BigCmp(BigMulLimb(b, d + 1), r) > 0

\* the quotient limbs i..Len(a) of a / b and the remainder they leave; the
\* high Len(b) - 1 limbs of a are below b and give no quotient limb
RECURSIVE BigDivFrom(_, _, _)
BigDivFrom(a, b, i) ==
    IF i > Len(a) - Len(b) + 1
    THEN [q |-> <<>>, r |-> BigTrim(SubSeq(a, i, Len(a)))]
    ELSE Only({
            IF up.r = <<>> /\ a[i] = 0
            THEN [q |-> <<0>> \o up.q, r |-> <<>>]
            ELSE Only({
                    Only({[q |-> <<d>> \o up.q, r |-> BigSub(r, BigMulLimb(b, d))] :
                            d \in {BigQuotLimb(r, b)}}) :
                    r \in {BigTrim(<<a[i]>> \o up.r)}})
            : up \in {BigDivFrom(a, b, i + 1)}})

\* floor(a / b) for b # 0, and whether the division left a remainder
BigDiv(a, b) ==
    LET s == LimbBits - SmallBitLen(b[Len(b)])
    IN  Only({[q |-> BigTrim(d.q), sticky |-> d.r # <<>>] :
                d \in {Only({BigDivFrom(x, y, 1) :
                                x \in {BigShiftLeft(a, s)},
                                y \in {BigShiftLeft(b, s)}})}})

\* ---------------------------------------------------------------------
\* float64
\* ---------------------------------------------------------------------
\* significand width of a float64
MantissaBits == 53

FZero == [m |-> <<>>, e |-> 0]

\* the float64 nearest to M * 2^E (+1 if sticky: a non-zero part below
\* the last bit of M), ties to even
FRound(M, E, sticky) ==
    LET L == BigBitLen(M)
        k == L - MantissaBits
        \* t.q is M without its low k - 1 bits; its lowest bit decides,
        \* with what lies below it, whether q goes up
        Up(t, q) == t.q[1] % 2 = 1 /\ (t.sticky \/ sticky \/ q[1] % 2 = 1)
        Pack(q2) ==
            IF BigBitLen(q2) > MantissaBits
            THEN [m |-> BigShiftRight(q2, 1).q, e |-> E + k + 1]
            ELSE [m |-> q2, e |-> E + k]
    IN  IF M = <<>> THEN FZero
        ELSE IF L <= MantissaBits
        THEN [m |-> BigShiftLeft(M, MantissaBits - L), e |-> E - (MantissaBits - L)]
        ELSE Only({
                Only({
                    Only({Pack(q2) : q2 \in {IF Up(t, q) THEN BigAdd(q, <<1>>) ELSE q}})
                    : q \in {BigShiftRight(t.q, 1).q}})
                : t \in {BigShiftRight(M, k - 1)}})

FFromInt(n) == FRound(IF n = 0 THEN <<>> ELSE <<n>>, 0, FALSE)

FMul(a, b) == Only({FRound(M, a.e + b.e, FALSE) : M \in {BigMul(a.m, b.m)}})

\* the exact sum of M1 * 2^E1 and M2 * 2^E2, rounded once
FSumRound(M1, E1, M2, E2) ==
    LET e == IF E1 < E2 THEN E1 ELSE E2
    IN  IF M1 = <<>> THEN FRound(M2, E2, FALSE)
        ELSE IF M2 = <<>> THEN FRound(M1, E1, FALSE)
        ELSE Only({FRound(M, e, FALSE) :
                     M \in {BigAdd(BigShiftLeft(M1, E1 - e),
                                   BigShiftLeft(M2, E2 - e))}})

FAdd(a, b) == FSumRound(a.m, a.e, b.m, b.e)

\* fused multiply-add: a * b + c with a single rounding
FFma(a, b, c) ==
    Only({FSumRound(M, a.e + b.e, c.m, c.e) : M \in {BigMul(a.m, b.m)}})

FDiv(a, b) ==
    IF a.m = <<>> THEN FZero
    ELSE Only({FRound(d.q, a.e - b.e - (MantissaBits + 3), d.sticky) :
                 d \in {BigDiv(BigShiftLeft(a.m, MantissaBits + 3), b.m)}})

\* -1, 0, 1 as a < b, a = b, a > b
FCmp(a, b) ==
    IF a.m = <<>> THEN (IF b.m = <<>> THEN 0 ELSE -1)
    ELSE IF b.m = <<>> THEN 1
    ELSE IF a.e < b.e THEN -1
    ELSE IF a.e > b.e THEN 1
    ELSE BigCmp(a.m, b.m)

FGt(a, b) == FCmp(a, b) > 0

\* the float64 a decimal literal p/q of the source denotes
FLit(p, q) == Only({FDiv(a, b) : a \in {FFromInt(p)}, b \in {FFromInt(q)}})

\* ---------------------------------------------------------------------
\* Strings are sequences of one-character strings
\* ---------------------------------------------------------------------
UpperChars == <<"A", "B", "C", "D", "E", "F", "G", "H", "I", "J", "K", "L", "M",
                "N", "O", "P", "Q", "R", "S", "T", "U", "V", "W", "X", "Y", "Z">>

LowerChars == <<"a", "b", "c", "d", "e", "f", "g", "h", "i", "j", "k", "l", "m",
                "n", "o", "p", "q", "r", "s", "t", "u", "v", "w", "x", "y", "z">>

SpaceChars == {" ", "\t", "\n", "\r"}

LowerChar(c) ==
    IF \E i \in 1..Len(UpperChars) : UpperChars[i] = c
    THEN LowerChars[CHOOSE i \in 1..Len(UpperChars) : UpperChars[i] = c]
    ELSE c

ToLower(s) == [i \in 1..Len(s) |-> LowerChar(s[i])]

TrimSpace(s) ==
    LET keep == {i \in 1..Len(s) : s[i] \notin SpaceChars}
    IN  IF keep = {} THEN <<>>
        ELSE SubSeq(s, CHOOSE i \in keep : \A j \in keep : i <= j,
                       CHOOSE i \in keep : \A j \in keep : i >= j)

\* strings.Split(s, sep) for a one-character sep
Split(s, sep) ==
    LET cuts  == {i \in 1..Len(s) : s[i] = sep}
        n     == Cardinality(cuts)
        \* position of the k-th separator; 0 and Len(s)+1 close the ends
        cut(k) == IF k = 0 THEN 0
                  ELSE IF k = n + 1 THEN Len(s) + 1
                  ELSE CHOOSE i \in cuts : Cardinality({j \in cuts : j < i}) = k - 1
    IN  [k \in 1..(n + 1) |-> SubSeq(s, cut(k - 1) + 1, cut(k) - 1)]

Contains(s, sub) ==
    \E i \in 1..(Len(s) - Len(sub) + 1) : SubSeq(s, i, i + Len(sub) - 1) = sub

Range(s) == {s[i] : i \in 1..Len(s)}

\* ---------------------------------------------------------------------
\* Similarity scorer
\* ---------------------------------------------------------------------
\* which of the two evaluations of score += x * w the build produces:
\* the Go specification lets a compiler fuse the multiplication and the
\* addition into one operation with a single rounding (arm64, ppc64le,
\* s390x and riscv64 do), amd64 rounds twice
Builds == {"rounded", "fused"}

MulAdd(target, s, x, w) ==
    IF target = "fused" THEN FFma(x, w, s)
    ELSE Only({FAdd(s, product) : product \in {FMul(x, w)}})

\* the float64 constants of the scorer
One == FLit(1, 1)

TagWeight == FLit(3, 10)

\* a weight of 0.35 for the industries
HeavierIndustryWeight == FLit(35, 100)

IndustryWeight == FLit(25, 100)

ExperienceWeight == FLit(2, 10)

SkillsWeight == FLit(15, 100)

LocationWeight == FLit(1, 10)

\* a threshold of 0.2
LowerMinMatchScore == FLit(2, 10)

MinMatchScore == FLit(3, 10)

\* a similarity that tells the casings of an element apart
calculateSimilarityCased(slice1, slice2) ==
    IF Len(slice1) = 0 /\ Len(slice2) = 0 THEN One
    ELSE IF Len(slice1) = 0 \/ Len(slice2) = 0 THEN FZero
    ELSE LET set1         == Range(slice1)
             set2         == Range(slice2)
             intersection == Cardinality(set1 \cap set2)
             union        == Cardinality(set1) + Cardinality(set2) - intersection
         IN  IF union = 0 THEN FZero
             ELSE Only({FDiv(a, b) : a \in {FFromInt(intersection)},
                                     b \in {FFromInt(union)}})

calculateSimilarity(slice1, slice2) ==
    IF Len(slice1) = 0 /\ Len(slice2) = 0 THEN One
    ELSE IF Len(slice1) = 0 \/ Len(slice2) = 0 THEN FZero
    ELSE LET set1         == {ToLower(x) : x \in Range(slice1)}
             set2         == {ToLower(x) : x \in Range(slice2)}
             intersection == Cardinality(set1 \cap set2)
             union        == Cardinality(set1) + Cardinality(set2) - intersection
         IN  IF union = 0 THEN FZero
             ELSE Only({FDiv(a, b) : a \in {FFromInt(intersection)},
                                     b \in {FFromInt(union)}})

\* a sub-score of 0.9 for experiences at most 2 years apart
ExpNearly == FLit(9, 10)

ExpSame == FLit(1, 1)

ExpNear == FLit(7, 10)

ExpFar == FLit(4, 10)

ExpRemote == FLit(1, 10)

\* bands that leave their upper ends to the next band
calculateExperienceCompatibilityStrict(exp1, exp2) ==
    LET diff == IF exp1 - exp2 < 0 THEN exp2 - exp1 ELSE exp1 - exp2
    IN  IF diff < 2 THEN ExpSame
        ELSE IF diff < 5 THEN ExpNear
        ELSE IF diff < 10 THEN ExpFar
        ELSE ExpRemote

calculateExperienceCompatibility(exp1, exp2) ==
    LET diff == IF exp1 - exp2 < 0 THEN exp2 - exp1 ELSE exp1 - exp2
    IN  IF diff <= 2 THEN ExpSame
        ELSE IF diff <= 5 THEN ExpNear
        ELSE IF diff <= 10 THEN ExpFar
        ELSE ExpRemote

LocUnknown == FLit(5, 10)

\* a sub-score of 2 for equal locations
LocDouble == FLit(2, 1)

LocSame == FLit(1, 1)

LocPartial == FLit(8, 10)

LocOther == FLit(2, 10)

\* a compatibility that looks for a missing location on one side only
calculateLocationCompatibilityOneSided(loc1, loc2) ==
    IF loc1 = <<>> THEN LocUnknown
    ELSE IF ToLower(TrimSpace(loc1)) = ToLower(TrimSpace(loc2)) THEN LocSame
    ELSE LocOther

calculateLocationCompatibility(loc1, loc2) ==
    IF loc1 = <<>> \/ loc2 = <<>> THEN LocUnknown
    ELSE LET loc1Lower == ToLower(TrimSpace(loc1))
             loc2Lower == ToLower(TrimSpace(loc2))
             parts1    == Split(loc1Lower, ",")
             parts2    == Split(loc2Lower, ",")
         IN  IF loc1Lower = loc2Lower THEN LocSame
             ELSE IF \E i \in 1..Len(parts1), j \in 1..Len(parts2) :
                         TrimSpace(parts1[i]) = TrimSpace(parts2[j])
             THEN LocPartial
             ELSE LocOther

\* the sub-scores with their weights, in the order of the statements
Terms(profile1, profile2) ==
    <<[x |-> calculateSimilarity(profile1.Tags, profile2.Tags),
       w |-> TagWeight],
      [x |-> calculateSimilarity(profile1.Industries, profile2.Industries),
       w |-> IndustryWeight],
      [x |-> calculateExperienceCompatibility(profile1.Experience,
                                              profile2.Experience),
       w |-> ExperienceWeight],
      [x |-> calculateSimilarity(profile1.Skills, profile2.Skills),
       w |-> SkillsWeight],
      [x |-> calculateLocationCompatibility(profile1.Location, profile2.Location),
       w |-> LocationWeight]>>

\* score and totalWeight after the statements for terms k, k + 1, ...
RECURSIVE Accumulate(_, _, _, _, _)
Accumulate(target, score, totalWeight, terms, k) ==
    IF k > Len(terms) THEN [score |-> score, totalWeight |-> totalWeight]
    ELSE Only({Accumulate(target, s, t, terms, k + 1) :
                 s \in {MulAdd(target, score, terms[k].x, terms[k].w)},
                 t \in {FAdd(totalWeight, terms[k].w)}})

CalculateMatchScore(target, profile1, profile2) ==
    Only({FDiv(sum.score, sum.totalWeight) :
            sum \in {Only({Accumulate(target, FZero, FZero, terms, 1) :
                              terms \in {Terms(profile1, profile2)}})}})

\* the common tags in the casing of the first list
FindCommonTagsFirstCasing(tags1, tags2) ==
    LET set2 == {ToLower(t) : t \in Range(tags2)}
    IN  SelectSeq(tags1, LAMBDA t : ToLower(t) \in set2)

\* strings.ToLower of every element, kept in the casing of the second list
FindCommonTags(tags1, tags2) ==
    LET set1 == {ToLower(t) : t \in Range(tags1)}
    IN  SelectSeq(tags2, LAMBDA t : ToLower(t) \in set1)

FindCommonSkills(skills1, skills2) ==
    LET set1 == {ToLower(t) : t \in Range(skills1)}
    IN  SelectSeq(skills2, LAMBDA t : ToLower(t) \in set1)

\* ---------------------------------------------------------------------
\* JSON documents.  json.Marshal turns a struct into a document keyed by
\* the json tags of models/matchmaker.go and json.Unmarshal reads the
\* struct back from those keys.  A float64 is written in the shortest
\* decimal form that reads back to the same float64, so the number token
\* of a document is identified with the float64 it denotes; a time.Time
\* is written as its instant.
\* ---------------------------------------------------------------------
\* what Unmarshal yields for bytes that are no JSON object of the type
DecodeError == [error |-> "decode"]

\* a document that leaves the skills out
MarshalProfileNoSkills(profile) ==
    [user_id    |-> profile.UserID,
     tags       |-> profile.Tags,
     industries |-> profile.Industries,
     experience |-> profile.Experience,
     interests  |-> profile.Interests,
     location   |-> profile.Location,
     bio        |-> profile.Bio,
     skills     |-> <<>>,
     created_at |-> profile.CreatedAt,
     updated_at |-> profile.UpdatedAt]

MarshalProfile(profile) ==
    [user_id    |-> profile.UserID,
     tags       |-> profile.Tags,
     industries |-> profile.Industries,
     experience |-> profile.Experience,
     interests  |-> profile.Interests,
     location   |-> profile.Location,
     bio        |-> profile.Bio,
     skills     |-> profile.Skills,
     created_at |-> profile.CreatedAt,
     updated_at |-> profile.UpdatedAt]

ProfileKeys == {"user_id", "tags", "industries", "experience", "interests",
                "location", "bio", "skills", "created_at", "updated_at"}

UnmarshalProfile(data) ==
    IF DOMAIN data # ProfileKeys THEN DecodeError
    ELSE [UserID     |-> data.user_id,
          Tags       |-> data.tags,
          Industries |-> data.industries,
          Experience |-> data.experience,
          Interests  |-> data.interests,
          Location   |-> data.location,
          Bio        |-> data.bio,
          Skills     |-> data.skills,
          CreatedAt  |-> data.created_at,
          UpdatedAt  |-> data.updated_at]

MarshalMatch(match) ==
    [id            |-> match.ID,
     user_id_1     |-> match.UserID1,
     user_id_2     |-> match.UserID2,
     score         |-> match.Score,
     common_tags   |-> match.CommonTags,
     common_skills |-> match.CommonSkills,
     status        |-> match.Status,
     created_at    |-> match.CreatedAt,
     updated_at    |-> match.UpdatedAt]

MatchKeys == {"id", "user_id_1", "user_id_2", "score", "common_tags",
              "common_skills", "status", "created_at", "updated_at"}

\* a decoder that drops the common skills
UnmarshalMatchNoSkills(data) ==
    IF DOMAIN data # MatchKeys THEN DecodeError
    ELSE [ID           |-> data.id,
          UserID1      |-> data.user_id_1,
          UserID2      |-> data.user_id_2,
          Score        |-> data.score,
          CommonTags   |-> data.common_tags,
          CommonSkills |-> <<>>,
          Status       |-> data.status,
          CreatedAt    |-> data.created_at,
          UpdatedAt    |-> data.updated_at]

UnmarshalMatch(data) ==
    IF DOMAIN data # MatchKeys THEN DecodeError
    ELSE [ID           |-> data.id,
          UserID1      |-> data.user_id_1,
          UserID2      |-> data.user_id_2,
          Score        |-> data.score,
          CommonTags   |-> data.common_tags,
          CommonSkills |-> data.common_skills,
          Status       |-> data.status,
          CreatedAt    |-> data.created_at,
          UpdatedAt    |-> data.updated_at]

\* the bytes of a message that is no user-updated event
Garbage == [garbage |-> TRUE]

MarshalEvent(event) ==
    [user_id   |-> event.UserID,
     profile   |-> MarshalProfile(event.Profile),
     timestamp |-> event.Timestamp]

EventKeys == {"user_id", "profile", "timestamp"}

UnmarshalEvent(data) ==
    IF DOMAIN data # EventKeys THEN DecodeError
    ELSE IF UnmarshalProfile(data.profile) = DecodeError THEN DecodeError
    ELSE [UserID    |-> data.user_id,
          Profile   |-> UnmarshalProfile(data.profile),
          Timestamp |-> data.timestamp]

\* ---------------------------------------------------------------------
\* Redis.  A database maps each key to its value and the instant at which
\* the key expires; a key is <<prefix, id>> for the string "prefix:id".
\* Time is counted in hours.
\* ---------------------------------------------------------------------
ProfilePrefix == "user_profile"

MatchPrefix == "match"

\* a time to live of two days
TwoDayTTL == 2 * 24

ProfileTTL == 24

MatchTTL == 7 * 24

\* redis.Nil, the answer of GET for a key that is absent or expired
Nil == [error |-> "redis: nil"]

Live(db, key, t) == key \in DOMAIN db /\ t <= db[key].exp

\* a SET that leaves a key that exists as it is
RedisSetOnce(db, key, data, ttl, t) ==
    [k \in DOMAIN db \cup {key} |->
        IF k \in DOMAIN db THEN db[k] ELSE [val |-> data, exp |-> t + ttl]]

RedisSet(db, key, data, ttl, t) ==
    [k \in DOMAIN db \cup {key} |->
        IF k = key THEN [val |-> data, exp |-> t + ttl] ELSE db[k]]

RedisGet(db, key, t) == IF Live(db, key, t) THEN db[key].val ELSE Nil

RedisKeys(db, prefix, t) == {k \in DOMAIN db : k[1] = prefix /\ Live(db, k, t)}

\* expired keys are evicted
RedisExpire(db, t) == [k \in {j \in DOMAIN db : Live(db, j, t)} |-> db[k]]

\* ---------------------------------------------------------------------
\* Inputs: the users and the profile attributes requests and events carry
\* ---------------------------------------------------------------------
Users == {"u1", "u2", "u3"}

\* the users of the generator specification, in a fixed order
GenUsers == <<"u1", "u2", "u3", "u4", "u5", "u6", "u7", "u8", "u9", "u10",
              "u11", "u12", "u13">>

go == <<"g", "o">>

ml == <<"m", "l">>

ML == <<"M", "L">>

fin == <<"f", "i", "n">>

ed == <<"e", "d">>

sql == <<"s", "q", "l">>

SQL == <<"S", "Q", "L">>

rlang == <<"r">>

\* Three attribute sets.  Backend against Analyst scores exactly 0.3;
\* Backend against Mentor scores 0.3 when the build fuses and the next
\* float64 above 0.3 when it does not; Analyst against Mentor scores
\* 0.595 with a tag and two skills in common under different casing.
Backend ==
    [Tags |-> <<go>>, Industries |-> <<fin>>, Experience |-> 1,
     Interests |-> <<"chess">>, Location |-> <<"S", "F", ",", " ", "C", "A">>,
     Bio |-> "backend", Skills |-> <<sql>>]

Analyst ==
    [Tags |-> <<ml>>, Industries |-> <<ed>>, Experience |-> 1,
     Interests |-> <<"go">>, Location |-> <<>>,
     Bio |-> "analyst", Skills |-> <<sql, go, rlang>>]

Mentor ==
    [Tags |-> <<ML>>, Industries |-> <<fin, ed>>, Experience |-> 14,
     Interests |-> <<>>, Location |-> <<"L", "A", ",", " ", "C", "A">>,
     Bio |-> "", Skills |-> <<SQL, go>>]

Pool == <<Backend, Analyst, Mentor>>

\* the UserProfile a request or an event carries for a user
NewProfile(userID, attrs) ==
    [UserID     |-> userID,
     Tags       |-> attrs.Tags,
     Industries |-> attrs.Industries,
     Experience |-> attrs.Experience,
     Interests  |-> attrs.Interests,
     Location   |-> attrs.Location,
     Bio        |-> attrs.Bio,
     Skills     |-> attrs.Skills,
     CreatedAt  |-> 0,
     UpdatedAt  |-> 0]

\* the attributes the scorer reads
Scored(profile) ==
    [Tags |-> profile.Tags, Industries |-> profile.Industries,
     Experience |-> profile.Experience, Skills |-> profile.Skills,
     Location |-> profile.Location]

\* CalculateMatchScore over the pool, computed once for each build
PoolScores(target) ==
    <<>> \o [i \in 1..Len(Pool) |->
        <<>> \o [j \in 1..Len(Pool) |->
            CalculateMatchScore(target, Pool[i], Pool[j])]]

ScoreTable == [rounded |-> PoolScores("rounded"), fused |-> PoolScores("fused")]

PoolIndex(profile) ==
    CHOOSE i \in 1..Len(Pool) : Scored(Pool[i]) = Scored(profile)

Score(target, profile1, profile2) ==
    ScoreTable[target][PoolIndex(profile1)][PoolIndex(profile2)]

\* ---------------------------------------------------------------------
\* Match generator
\* ---------------------------------------------------------------------
MaxMatches == 10

\* a loop that passes over no profile
NeverSelf(userID, profile) == FALSE

\* the profile the loop passes over: the user's own
IsSelf(userID, profile) == profile.UserID = userID

\* a threshold test that lets a score of exactly 0.3 through
AtOrAboveThreshold(score) == ~FGt(MinMatchScore, score)

\* the minimum threshold a score has to exceed
AboveThreshold(score) == FGt(score, MinMatchScore)

\* a match that takes the first id whatever ids are in use
NewMatchFirstId(id, userID, userProfile, profile, score, t) ==
    [ID           |-> 1,
     UserID1      |-> userID,
     UserID2      |-> profile.UserID,
     Score        |-> score,
     CommonTags   |-> FindCommonTags(userProfile.Tags, profile.Tags),
     CommonSkills |-> FindCommonSkills(userProfile.Skills, profile.Skills),
     Status       |-> "pending",
     CreatedAt    |-> t,
     UpdatedAt    |-> t]

\* a match that names the candidate first
NewMatchSwapped(id, userID, userProfile, profile, score, t) ==
    [ID           |-> id,
     UserID1      |-> profile.UserID,
     UserID2      |-> userID,
     Score        |-> score,
     CommonTags   |-> FindCommonTags(userProfile.Tags, profile.Tags),
     CommonSkills |-> FindCommonSkills(userProfile.Skills, profile.Skills),
     Status       |-> "pending",
     CreatedAt    |-> t,
     UpdatedAt    |-> t]

NewMatch(id, userID, userProfile, profile, score, t) ==
    [ID           |-> id,
     UserID1      |-> userID,
     UserID2      |-> profile.UserID,
     Score        |-> score,
     CommonTags   |-> FindCommonTags(userProfile.Tags, profile.Tags),
     CommonSkills |-> FindCommonSkills(userProfile.Skills, profile.Skills),
     Status       |-> "pending",
     CreatedAt    |-> t,
     UpdatedAt    |-> t]

\* the profiles of the loop that are scored, each with its score
ScoreOthers(target, userID, userProfile, profiles) ==
    Only({[k \in 1..Len(others) |->
                [profile |-> others[k],
                 score   |-> Score(target, userProfile, others[k])]] :
            others \in {SelectSeq(profiles, LAMBDA p : ~IsSelf(userID, p))}})

\* the matches the loop appends, in the order of profiles; uuid.New()
\* never repeats, so the k-th match takes the k-th unused id
AppendMatches(target, userID, userProfile, profiles, first, t) ==
    Only({<<>> \o [k \in 1..Len(kept) |->
                    NewMatch(first + k - 1, userID, userProfile,
                             kept[k].profile, kept[k].score, t)] :
            kept \in {SelectSeq(ScoreOthers(target, userID, userProfile, profiles),
                                LAMBDA c : AboveThreshold(c.score))}})

\* matches left in the order they were appended
KeepOrder(matches) == matches

\* sort.Slice by score, highest first.  For the at most 12 elements sorted
\* here the library sorts by insertion, which keeps equal scores in their
\* order: the place of an element is the number of elements before it.
SortByScore(matches) ==
    LET n == Len(matches)
        before(i) ==
            Cardinality({j \in 1..n :
                \/ FGt(matches[j].Score, matches[i].Score)
                \/ j < i /\ matches[j].Score = matches[i].Score})
    IN  <<>> \o [k \in 1..n |-> matches[CHOOSE i \in 1..n : before(i) = k - 1]]

Truncate(matches) ==
    IF Len(matches) > MaxMatches THEN SubSeq(matches, 1, MaxMatches) ELSE matches

\* the part of FindMatches that follows the two reads
RankMatches(target, userID, userProfile, profiles, first, t) ==
    Only({Truncate(sorted) :
            sorted \in {Only({SortByScore(all) :
                                all \in {AppendMatches(target, userID, userProfile,
                                                       profiles, first, t)}})}})

\* the orders in which KEYS may list a set of keys: any order for a small
\* set, the rotations of the users' order and their reversals beyond
MaxPermKeys == 3

Perms(S) ==
    {f \in [1..Cardinality(S) -> S] :
        \A i, j \in 1..Cardinality(S) : i # j => f[i] # f[j]}

UserIndex(userID) == CHOOSE i \in 1..Len(GenUsers) : GenUsers[i] = userID

Ascending(S) ==
    [i \in 1..Cardinality(S) |->
        CHOOSE k \in S :
            Cardinality({j \in S : UserIndex(j[2]) < UserIndex(k[2])}) = i - 1]

Rotations(S) ==
    LET n   == Cardinality(S)
        asc == Ascending(S)
    IN  {[i \in 1..n |-> asc[((i + r) % n) + 1]] : r \in 0..(n - 1)}
        \cup {[i \in 1..n |-> asc[((n - i + r) % n) + 1]] : r \in 0..(n - 1)}

KeyOrders(S) ==
    IF Cardinality(S) <= MaxPermKeys THEN Perms(S) ELSE Rotations(S)

\* ---------------------------------------------------------------------
\* The service: the consumer goroutine of StartConsumer, one HTTP request
\* of CreateUserProfile and one of UpdateMatchStatus at a time, the clock
\* and the producer of the user-updated topic.  A step is one call to
\* Redis or Kafka together with the local computation that follows it;
\* every such call either succeeds or returns an error.
\* ---------------------------------------------------------------------
\* events produced, requests accepted, ids drawn, hours counted
MaxLog == 2

MaxCalls == 1

MaxIds == 4

MaxFaults == 1

TickHours == 24

MaxTicks == 2

VARIABLES
    redis,      \* the Redis database behind utils.RedisClient
    now,        \* the clock, in hours
    build,      \* how the build evaluates score += x * w
    nextId,     \* the next id uuid.New() has not handed out yet
    topic,      \* the messages of the user-updated topic not yet read
    offset,     \* the number of messages the reader has returned
    outTopic,   \* the matches-created topic
    proc,       \* the activations of ProcessUserUpdate and CreateUserProfile
    steps,      \* the event in hand and the calls made for it so far
    upd,        \* the activation of UpdateMatchStatus
    calls,      \* the HTTP requests accepted so far
    faults      \* the calls to Redis and Kafka that have failed so far

vars == <<redis, now, build, nextId, topic, offset, outTopic, proc, steps,
          upd, calls, faults>>

Threads == {"consumer", "api"}

NoProfile == [none |-> "profile"]

NoResult == [code |-> 0]

NoRequest == [none |-> "request"]

\* an activation: where it stands, the arguments and locals of
\* FindMatches, and what it returns
Idle ==
    [pc |-> "idle", userID |-> "", profile |-> NoProfile,
     userProfile |-> NoProfile, keys |-> <<>>, profiles |-> <<>>,
     matches |-> <<>>, i |-> 0, request |-> NoRequest, result |-> NoResult]

NoMatch == [none |-> "match"]

\* the activation of UpdateMatchStatus: where it stands, the match id and
\* the status of the request, the match read, and the answer
UpdIdle ==
    [pc |-> "idle", matchID |-> 0, status |-> "", match |-> NoMatch,
     result |-> NoResult]

Init ==
    /\ redis = [k \in {} |-> Nil]
    /\ now = 0
    /\ build \in Builds
    /\ nextId = 1
    /\ topic = <<>>
    /\ offset = 0
    /\ outTopic = <<>>
    /\ proc = [t \in Threads |-> Idle]
    /\ steps = <<>>
    /\ upd = UpdIdle
    /\ calls = 0
    /\ faults = 0

\* whether a call to Redis or Kafka goes through; the failures of a run
\* are counted
Outcomes == IF faults < MaxFaults THEN BOOLEAN ELSE {TRUE}

Count(ok) == IF ok THEN faults ELSE faults + 1

\* ids one activation of FindMatches can draw, and the activations that
\* have yet to draw theirs; a new one is admitted while ids remain for all
PerCall == Cardinality(Users) - 1

Pending ==
    Len(topic)
    + Cardinality({t \in Threads : proc[t].pc \in {"store", "get", "keys", "scan"}})

Admit == (nextId - 1) + PerCall * (Pending + 1) <= MaxIds

\* the activation t is over: ProcessUserUpdate returns to the loop with
\* nil or an error, CreateUserProfile writes its response
Return(t, result) ==
    [proc EXCEPT ![t] = [Idle EXCEPT !.pc = "return", !.result = result]]

\* the error of a failed stage: the 500 of CreateUserProfile, the error
\* ProcessUserUpdate wraps
Failed(t, stage) ==
    IF t = "api"
    THEN [code  |-> 500,
          error |-> IF stage = "store" THEN "Failed to create user profile"
                    ELSE "Failed to find matches"]
    ELSE [error |-> IF stage = "store" THEN "failed to store user profile"
                    ELSE "failed to find matches"]

\* the result of a stage that went through: 201 with the number of
\* matches, nil for ProcessUserUpdate
Succeeded(t, matches) ==
    IF t = "api"
    THEN [code |-> 201, matches_found |-> Len(matches)]
    ELSE [error |-> "nil"]

Trace(t, entry) == IF t = "consumer" THEN Append(steps, entry) ELSE steps

\* the producer appends a message to the user-updated topic: an event for
\* a user, an event whose snapshot names another user, or other bytes
Events ==
    {MarshalEvent([UserID |-> "u1", Profile |-> NewProfile("u1", Mentor),
                   Timestamp |-> 0]),
     MarshalEvent([UserID |-> "u2", Profile |-> NewProfile("u2", Analyst),
                   Timestamp |-> 0]),
     MarshalEvent([UserID |-> "u1", Profile |-> NewProfile("u2", Backend),
                   Timestamp |-> 0]),
     Garbage}

\* the bodies of the CreateUserProfile requests that bind
Requests == {NewProfile("u1", Backend), NewProfile("u3", Mentor)}

PublishUserUpdated ==
    /\ offset + Len(topic) < MaxLog
    /\ Admit
    /\ \E data \in Events : topic' = Append(topic, data)
    /\ UNCHANGED <<redis, now, build, nextId, offset, outTopic, proc, steps,
                   upd, calls, faults>>

\* ReadMessage returns an error: logged, and the loop goes round
ReadError ==
    /\ proc["consumer"].pc = "idle"
    /\ UNCHANGED vars

\* ReadMessage returns the next message; an event that decodes enters
\* ProcessUserUpdate, other bytes are logged and skipped
ReadMessage ==
    /\ proc["consumer"].pc = "idle"
    /\ Len(topic) > 0
    /\ topic' = Tail(topic)
    /\ offset' = offset + 1
    /\ LET event == UnmarshalEvent(Head(topic))
       IN  IF event = DecodeError
           THEN UNCHANGED <<proc, steps>>
           ELSE /\ proc' = [proc EXCEPT !["consumer"] =
                               [Idle EXCEPT !.pc = "store",
                                            !.userID = event.UserID,
                                            !.profile = event.Profile]]
                /\ steps' = <<<<"event", event>>>>
    /\ UNCHANGED <<redis, now, build, nextId, outTopic, upd, calls, faults>>

\* a loop that ends when ProcessUserUpdate returns an error
ReturnedOrStopped(t) ==
    /\ proc[t].pc = "return"
    /\ proc' = [proc EXCEPT ![t] =
                   IF t = "consumer" /\ proc[t].result # Succeeded(t, <<>>)
                   THEN [Idle EXCEPT !.pc = "stopped"]
                   ELSE Idle]
    /\ steps' = IF t = "consumer" THEN <<>> ELSE steps
    /\ UNCHANGED <<redis, now, build, nextId, topic, offset, outTopic, upd,
                   calls, faults>>

\* ProcessUserUpdate has returned: the loop logs an error, if any, and
\* goes round; CreateUserProfile has answered: the request is over
Returned(t) ==
    /\ proc[t].pc = "return"
    /\ proc' = [proc EXCEPT ![t] = Idle]
    /\ steps' = IF t = "consumer" THEN <<>> ELSE steps
    /\ UNCHANGED <<redis, now, build, nextId, topic, offset, outTopic, upd,
                   calls, faults>>

\* the handler binds the request; a body without user_id is a 400
CreateUserProfile ==
    /\ proc["api"].pc = "idle"
    /\ calls < MaxCalls
    /\ calls' = calls + 1
    /\ \/ proc' = Return("api", [code |-> 400])
       \/ /\ Admit
          /\ \E req \in Requests :
                proc' = [proc EXCEPT !["api"] =
                            [Idle EXCEPT !.pc = "store",
                                         !.userID = req.UserID,
                                         !.profile = req]]
    /\ UNCHANGED <<redis, now, build, nextId, topic, offset, outTopic, steps,
                   upd, faults>>

\* a caller that goes on to FindMatches after a write that failed
StoreUserProfileThenFind(t) ==
    /\ proc[t].pc = "store"
    /\ \E ok \in Outcomes :
       \E profile \in {proc[t].profile} :
          /\ faults' = Count(ok)
          /\ steps' = Trace(t, <<"put", profile, ok>>)
          /\ redis' = IF ok
                      THEN RedisSet(redis, <<ProfilePrefix, profile.UserID>>,
                                    MarshalProfile(profile), ProfileTTL, now)
                      ELSE redis
          /\ proc' = [proc EXCEPT ![t].pc = "get"]
    /\ UNCHANGED <<now, build, nextId, topic, offset, outTopic, upd, calls>>

StoreUserProfile(t) ==
    /\ proc[t].pc = "store"
    /\ \E ok \in Outcomes :
        LET profile == proc[t].profile
            key     == <<ProfilePrefix, profile.UserID>>
        IN  /\ faults' = Count(ok)
            /\ steps' = Trace(t, <<"put", profile, ok>>)
            /\ redis' = IF ok
                        THEN RedisSet(redis, key, MarshalProfile(profile),
                                      ProfileTTL, now)
                        ELSE redis
            /\ proc' = IF ok
                       THEN [proc EXCEPT ![t].pc = "get"]
                       ELSE Return(t, Failed(t, "store"))
    /\ UNCHANGED <<now, build, nextId, topic, offset, outTopic, upd, calls>>

\* GetUserProfile as the store answers it: the profile, or redis.Nil
GetUserProfile(db, userID, t) ==
    LET data == RedisGet(db, <<ProfilePrefix, userID>>, t)
    IN  IF data = Nil THEN Nil ELSE UnmarshalProfile(data)

\* GetMatchDetails as the store answers it: the match, or redis.Nil
GetMatchDetails(db, matchID, t) ==
    LET data == RedisGet(db, <<MatchPrefix, matchID>>, t)
    IN  IF data = Nil THEN Nil ELSE UnmarshalMatch(data)

\* a listing of the matches that name the user first
GetMatchesForUserFirst(db, userID, keys, t) ==
    Only({SortByScore(SelectSeq(read, LAMBDA m :
                m \notin {Nil, DecodeError} /\ m.UserID1 = userID)) :
            read \in {<<>> \o [k \in 1..Len(keys) |->
                                  GetMatchDetails(db, keys[k][2], t)]}})

\* GetMatchesForUser when KEYS lists the match keys in the order keys:
\* the matches that name the user, highest score first
GetMatchesForUser(db, userID, keys, t) ==
    Only({SortByScore(SelectSeq(read, LAMBDA m :
                m \notin {Nil, DecodeError}
                /\ (m.UserID1 = userID \/ m.UserID2 = userID))) :
            read \in {<<>> \o [k \in 1..Len(keys) |->
                                  GetMatchDetails(db, keys[k][2], t)]}})

\* the match keys of a database in the order of their ids
ByID(db, t) ==
    LET S == RedisKeys(db, MatchPrefix, t)
    IN  [i \in 1..Cardinality(S) |->
            CHOOSE k \in S : Cardinality({j \in S : j[2] < k[2]}) = i - 1]

\* the match keys by descending id, another order in which KEYS may
\* list them
ByIDReversed(db, t) ==
    LET keys == ByID(db, t)
    IN  [i \in 1..Len(keys) |-> keys[Len(keys) + 1 - i]]

\* a first read that goes on with the profile in hand when the store has
\* none for the user
FindMatchesGetAnyway(t) ==
    /\ proc[t].pc = "get"
    /\ \E ok \in Outcomes :
       \E stored \in {GetUserProfile(redis, proc[t].userID, now)} :
       \E userProfile \in {IF stored = Nil THEN proc[t].profile ELSE stored} :
          /\ faults' = Count(ok)
          /\ proc' = IF ok /\ userProfile \notin {NoProfile, DecodeError}
                     THEN [proc EXCEPT ![t].pc = "keys",
                                       ![t].userProfile = userProfile]
                     ELSE Return(t, Failed(t, "find"))
    /\ UNCHANGED <<redis, now, build, nextId, topic, offset, outTopic, steps,
                   upd, calls>>

\* FindMatches, first read: the profile of the user
FindMatchesGet(t) ==
    /\ proc[t].pc = "get"
    /\ \E ok \in Outcomes :
        LET userProfile == GetUserProfile(redis, proc[t].userID, now)
        IN  /\ faults' = Count(ok)
            /\ proc' = IF ok /\ userProfile \notin {Nil, DecodeError}
                       THEN [proc EXCEPT ![t].pc = "keys",
                                         ![t].userProfile = userProfile]
                       ELSE Return(t, Failed(t, "find"))
    /\ UNCHANGED <<redis, now, build, nextId, topic, offset, outTopic, steps,
                   upd, calls>>

\* an id supply that hands out the same ids again
UsedAgain(first, n) == first

\* the ids uuid.New() has yet to hand out after n calls
Unused(first, n) == first + n

\* FindMatches once every profile is read: the matches are built, sorted
\* and cut, and the caller goes on to store them, if any
Ranked(t, profiles) ==
    \E all \in {AppendMatches(build, proc[t].userID, proc[t].userProfile,
                              profiles, nextId, now)} :
    \E matches \in {Only({Truncate(sorted) : sorted \in {SortByScore(all)}})} :
        /\ nextId' = Unused(nextId, Len(all))
        /\ steps' = Trace(t, <<"gen", proc[t].userID,
                               <<>> \o [k \in 1..Len(matches) |-> matches[k].ID]>>)
        /\ proc' = IF Len(matches) > 0
                   THEN [proc EXCEPT ![t] =
                            [Idle EXCEPT !.pc = "persist",
                                         !.userID = proc[t].userID,
                                         !.matches = matches,
                                         !.i = 1]]
                   ELSE Return(t, Succeeded(t, matches))

\* GetAllUserProfiles, the KEYS call
FindMatchesKeys(t) ==
    /\ proc[t].pc = "keys"
    /\ \E ok \in Outcomes :
        /\ faults' = Count(ok)
        /\ IF ok
           THEN \E order \in KeyOrders(RedisKeys(redis, ProfilePrefix, now)) :
                   IF Len(order) = 0
                   THEN Ranked(t, <<>>)
                   ELSE /\ proc' = [proc EXCEPT ![t].pc = "scan",
                                                ![t].keys = <<>> \o order]
                        /\ UNCHANGED <<nextId, steps>>
           ELSE /\ proc' = Return(t, Failed(t, "find"))
                /\ UNCHANGED <<nextId, steps>>
    /\ UNCHANGED <<redis, now, build, topic, offset, outTopic, upd, calls>>

\* GetAllUserProfiles, the GET of one key: a key that fails, is gone or
\* does not decode is skipped
FindMatchesScan(t) ==
    /\ proc[t].pc = "scan"
    /\ \E ok \in Outcomes :
      \E data \in {RedisGet(redis, Head(proc[t].keys), now)} :
      \E profile \in {IF data = Nil THEN Nil ELSE UnmarshalProfile(data)} :
      \E profiles \in {IF ok /\ profile \notin {Nil, DecodeError}
                       THEN Append(proc[t].profiles, profile)
                       ELSE proc[t].profiles} :
        /\ faults' = Count(ok)
        /\ IF Len(proc[t].keys) = 1
           THEN Ranked(t, profiles)
           ELSE /\ proc' = [proc EXCEPT ![t].keys = Tail(proc[t].keys),
                                        ![t].profiles = profiles]
                /\ UNCHANGED <<nextId, steps>>
    /\ UNCHANGED <<redis, now, build, topic, offset, outTopic, upd, calls>>

\* a loop over the matches that gives up at the first failed StoreMatch
StoreMatchOrAbort(t) ==
    /\ proc[t].pc = "persist"
    /\ \E ok \in Outcomes :
        LET match == proc[t].matches[proc[t].i]
        IN  /\ faults' = Count(ok)
            /\ redis' = IF ok
                        THEN RedisSet(redis, <<MatchPrefix, match.ID>>,
                                      MarshalMatch(match), MatchTTL, now)
                        ELSE redis
            /\ steps' = Trace(t, <<"persist", match.ID, ok>>)
            /\ proc' = IF ~ok
                       THEN Return(t, Failed(t, "find"))
                       ELSE IF proc[t].i < Len(proc[t].matches)
                       THEN [proc EXCEPT ![t].i = proc[t].i + 1]
                       ELSE IF t = "consumer"
                       THEN [proc EXCEPT ![t].pc = "publish", ![t].i = 1]
                       ELSE Return(t, Succeeded(t, proc[t].matches))
    /\ UNCHANGED <<now, build, nextId, topic, offset, outTopic, upd, calls>>

\* StoreMatch of the next match; a failure is logged or passed over.
\* After the last one the consumer goes on to publish and
\* CreateUserProfile answers 201.
StoreMatch(t) ==
    /\ proc[t].pc = "persist"
    /\ \E ok \in Outcomes :
        LET match == proc[t].matches[proc[t].i]
        IN  /\ faults' = Count(ok)
            /\ redis' = IF ok
                        THEN RedisSet(redis, <<MatchPrefix, match.ID>>,
                                      MarshalMatch(match), MatchTTL, now)
                        ELSE redis
            /\ steps' = Trace(t, <<"persist", match.ID, ok>>)
    /\ proc' = IF proc[t].i < Len(proc[t].matches)
               THEN [proc EXCEPT ![t].i = proc[t].i + 1]
               ELSE IF t = "consumer"
               THEN [proc EXCEPT ![t].pc = "publish", ![t].i = 1]
               ELSE Return(t, Succeeded(t, proc[t].matches))
    /\ UNCHANGED <<now, build, nextId, topic, offset, outTopic, upd, calls>>

\* a publisher that returns after the first WriteMessages
PublishFirstMatchCreated ==
    /\ proc["consumer"].pc = "publish"
    /\ \E ok \in Outcomes :
        LET match == proc["consumer"].matches[proc["consumer"].i]
        IN  /\ faults' = Count(ok)
            /\ outTopic' = IF ok
                           THEN Append(outTopic, [Key   |-> match.ID,
                                                  Value |-> MarshalMatch(match)])
                           ELSE outTopic
            /\ steps' = Append(steps, <<"publish", match.ID, ok>>)
    /\ proc' = Return("consumer", Succeeded("consumer", <<>>))
    /\ UNCHANGED <<redis, now, build, nextId, topic, offset, upd, calls>>

\* PublishMatchesCreated, the WriteMessages of the next match; a failure
\* is logged
PublishMatchesCreated ==
    /\ proc["consumer"].pc = "publish"
    /\ \E ok \in Outcomes :
        LET match == proc["consumer"].matches[proc["consumer"].i]
        IN  /\ faults' = Count(ok)
            /\ outTopic' = IF ok
                           THEN Append(outTopic, [Key   |-> match.ID,
                                                  Value |-> MarshalMatch(match)])
                           ELSE outTopic
            /\ steps' = Append(steps, <<"publish", match.ID, ok>>)
    /\ proc' = IF proc["consumer"].i < Len(proc["consumer"].matches)
               THEN [proc EXCEPT !["consumer"].i = proc["consumer"].i + 1]
               ELSE Return("consumer", Succeeded("consumer", <<>>))
    /\ UNCHANGED <<redis, now, build, nextId, topic, offset, upd, calls>>

\* a binding that accepts "archived" as well
MoreStatuses == {"pending", "accepted", "rejected", "archived"}

\* the values the binding of UpdateMatchStatus accepts
Statuses == {"pending", "accepted", "rejected"}

\* UpdateMatchStatus up to its GET: a status outside the three is a 400,
\* a match that cannot be read a 404; otherwise the decoded match takes
\* the new status and the time of the update
UpdateMatchStatusGet ==
    /\ upd.pc = "idle"
    /\ calls < MaxCalls
    /\ calls' = calls + 1
    /\ \E matchID \in 1..MaxIds, status \in {"accepted", "archived"},
          ok \in Outcomes :
        LET data    == RedisGet(redis, <<MatchPrefix, matchID>>, now)
            match   == IF data = Nil THEN Nil ELSE UnmarshalMatch(data)
            request == [UpdIdle EXCEPT !.matchID = matchID, !.status = status]
        IN  /\ faults' = IF status \in Statuses THEN Count(ok) ELSE faults
            /\ upd' = IF status \notin Statuses
                   THEN [request EXCEPT !.pc = "return", !.result = [code |-> 400]]
                   ELSE IF ~ok \/ match = Nil
                   THEN [request EXCEPT !.pc = "return", !.result = [code |-> 404]]
                   ELSE IF match = DecodeError
                   THEN [request EXCEPT !.pc = "return", !.result = [code |-> 500]]
                   ELSE [request EXCEPT
                            !.pc = "set",
                            !.match = [match EXCEPT !.Status = status,
                                                    !.UpdatedAt = now]]
    /\ UNCHANGED <<redis, now, build, nextId, topic, offset, outTopic, proc,
                   steps>>

\* UpdateMatchStatus, the StoreMatch of the updated match and the answer
UpdateMatchStatusSet ==
    /\ upd.pc = "set"
    /\ \E ok \in Outcomes :
        /\ faults' = Count(ok)
        /\ redis' = IF ok
                    THEN RedisSet(redis, <<MatchPrefix, upd.match.ID>>,
                                  MarshalMatch(upd.match), MatchTTL, now)
                    ELSE redis
        /\ upd' = [upd EXCEPT
                      !.pc = "return",
                      !.match = NoMatch,
                      !.result = IF ok THEN [code |-> 200, match |-> upd.match]
                                 ELSE [code |-> 500]]
    /\ UNCHANGED <<now, build, nextId, topic, offset, outTopic, proc, steps,
                   calls>>

UpdateMatchStatusReturned ==
    /\ upd.pc = "return"
    /\ upd' = UpdIdle
    /\ UNCHANGED <<redis, now, build, nextId, topic, offset, outTopic, proc,
                   steps, calls, faults>>

\* time passes and Redis evicts the keys whose time to live has run out
Tick ==
    /\ now < MaxTicks * TickHours
    /\ now' = now + TickHours
    /\ redis' = RedisExpire(redis, now')
    /\ UNCHANGED <<build, nextId, topic, offset, outTopic, proc, steps, upd,
                   calls, faults>>

Next ==
    \/ PublishUserUpdated
    \/ ReadError
    \/ ReadMessage
    \/ CreateUserProfile
    \/ \E t \in Threads : StoreUserProfile(t)
    \/ \E t \in Threads : FindMatchesGet(t)
    \/ \E t \in Threads : FindMatchesKeys(t)
    \/ \E t \in Threads : FindMatchesScan(t)
    \/ \E t \in Threads : StoreMatch(t)
    \/ PublishMatchesCreated
    \/ \E t \in Threads : Returned(t)
    \/ UpdateMatchStatusGet
    \/ UpdateMatchStatusSet
    \/ UpdateMatchStatusReturned
    \/ Tick

Spec == Init /\ [][Next]_vars

\* ---------------------------------------------------------------------
\* The match generator on its own: FindMatches as one step over a store
\* that holds the profiles of the first n users
\* ---------------------------------------------------------------------
\* the store after n users have put their profiles: one set of attributes
\* for the last of them, one for the others
InitGen ==
    /\ \E n \in 0..Len(GenUsers), others \in 1..Len(Pool), last \in 1..Len(Pool) :
          redis = [k \in {<<ProfilePrefix, GenUsers[i]>> : i \in 1..n} |->
                      [val |-> MarshalProfile(
                                   NewProfile(k[2], IF k[2] = GenUsers[n]
                                                    THEN Pool[last]
                                                    ELSE Pool[others])),
                       exp |-> ProfileTTL]]
    /\ now = 0
    /\ build \in Builds
    /\ nextId = 1
    /\ topic = <<>>
    /\ offset = 0
    /\ outTopic = <<>>
    /\ proc = [t \in Threads |-> Idle]
    /\ steps = <<>>
    /\ upd = UpdIdle
    /\ calls = 0
    /\ faults = 0

\* FindMatches for a user, every read answered: the activation holds the
\* profiles as GetAllUserProfiles returned them and the matches returned.
\* Nothing is stored, so the ids are handed out again.
FindMatches ==
    /\ proc["api"].pc = "idle"
    /\ \E i \in 1..Len(GenUsers) :
       \E userProfile \in {GetUserProfile(redis, GenUsers[i], now)} :
          IF userProfile \in {Nil, DecodeError}
          THEN proc' = Return("api", Failed("api", "find"))
          ELSE \E order \in KeyOrders(RedisKeys(redis, ProfilePrefix, now)) :
               \E profiles \in {<<>> \o [k \in 1..Len(order) |->
                                   UnmarshalProfile(RedisGet(redis, order[k], now))]} :
               \E matches \in {RankMatches(build, GenUsers[i], userProfile,
                                           profiles, nextId, now)} :
                  proc' = [proc EXCEPT !["api"] =
                              [Idle EXCEPT !.pc = "found",
                                           !.userID = GenUsers[i],
                                           !.userProfile = userProfile,
                                           !.profiles = profiles,
                                           !.matches = matches]]
    /\ UNCHANGED <<redis, now, build, nextId, topic, offset, outTopic, steps,
                   upd, calls, faults>>

\* the caller has the matches
FindMatchesReturned ==
    /\ proc["api"].pc = "found"
    /\ proc' = [proc EXCEPT !["api"] = Idle]
    /\ UNCHANGED <<redis, now, build, nextId, topic, offset, outTopic, steps,
                   upd, calls, faults>>

NextGen ==
    \/ FindMatches
    \/ FindMatchesReturned
    \/ Returned("api")

SpecGen == InitGen /\ [][NextGen]_vars

\* ---------------------------------------------------------------------
\* The scorer on its own: CalculateMatchScore and its sub-scores applied
\* to a pair of profiles
\* ---------------------------------------------------------------------
SanFrancisco == <<"S", "F", ",", " ", "C", "A">>

SanFranciscoTyped == <<" ", "s", "f", ",", " ", "c", "a", " ">>

LosAngeles == <<"L", "A", ",", " ", "C", "A">>

NewYork == <<"N", "Y">>

\* the attributes of the profiles scored: lists that are empty, that
\* repeat an element under another casing and that overlap in part,
\* experiences 0, 3, 6 and 13 years apart, locations that are empty, equal
\* up to case and spaces, equal in one segment, and different
ScorerTags == {<<>>, <<go>>, <<ML, ml, go>>}

ScorerLists ==
    {[Industries |-> <<>>, Skills |-> <<>>],
     [Industries |-> <<fin, ed>>, Skills |-> <<SQL, go>>],
     [Industries |-> <<fin>>, Skills |-> <<sql, rlang, go>>]}

ScorerExperience == {1, 4, 7, 14}

ScorerLocations == {<<>>, SanFrancisco, SanFranciscoTyped, LosAngeles, NewYork}

\* the profiles with attributes out of the given lists
ScorerProfiles(userID, lists, experience, locations) ==
    {NewProfile(userID,
                [Tags |-> t, Industries |-> i.Industries, Experience |-> e,
                 Interests |-> <<>>, Location |-> l, Bio |-> "",
                 Skills |-> i.Skills]) :
        t \in ScorerTags, i \in lists, e \in experience, l \in locations}

\* the first profile of a pair and the second
FirstProfiles ==
    ScorerProfiles("u1", {i \in ScorerLists : Len(i.Industries) # 1}, {1},
                   {<<>>, SanFrancisco})

SecondProfiles ==
    ScorerProfiles("u2", ScorerLists, ScorerExperience, ScorerLocations)

\* two profiles are in hand, nothing else has happened
InitScore ==
    /\ redis = [k \in {} |-> Nil]
    /\ now = 0
    /\ build \in Builds
    /\ nextId = 1
    /\ topic = <<>>
    /\ offset = 0
    /\ outTopic = <<>>
    /\ \E a \in FirstProfiles, b \in SecondProfiles :
          proc = [t \in Threads |->
                     IF t = "api"
                     THEN [Idle EXCEPT !.userProfile = a, !.profile = b]
                     ELSE Idle]
    /\ steps = <<>>
    /\ upd = UpdIdle
    /\ calls = 0
    /\ faults = 0

\* the same attributes with other interests and another bio
Rewritten(profile) ==
    [profile EXCEPT !.Interests = <<"chess">>, !.Bio = "rewritten"]

\* CalculateMatchScore of the two profiles, in both orders and with
\* interests and bio rewritten, and the five sub-scores
ScorePair ==
    /\ proc["api"].pc = "idle"
    /\ \E profile1 \in {proc["api"].userProfile}, profile2 \in {proc["api"].profile} :
          proc' = [proc EXCEPT
                      !["api"].pc = "scored",
                      !["api"].result =
                          [score      |-> CalculateMatchScore(build, profile1, profile2),
                           swapped    |-> CalculateMatchScore(build, profile2, profile1),
                           rewritten  |-> CalculateMatchScore(build, Rewritten(profile1),
                                                              Rewritten(profile2)),
                           tags       |-> calculateSimilarity(profile1.Tags, profile2.Tags),
                           industries |-> calculateSimilarity(profile1.Industries,
                                                              profile2.Industries),
                           experience |-> calculateExperienceCompatibility(
                                              profile1.Experience, profile2.Experience),
                           skills     |-> calculateSimilarity(profile1.Skills,
                                                              profile2.Skills),
                           location   |-> calculateLocationCompatibility(
                                              profile1.Location, profile2.Location)]]
    /\ UNCHANGED <<redis, now, build, nextId, topic, offset, outTopic, steps,
                   upd, calls, faults>>

\* the caller has the score
ScoreReturned ==
    /\ proc["api"].pc = "scored"
    /\ proc' = [proc EXCEPT !["api"].pc = "idle", !["api"].result = NoResult]
    /\ UNCHANGED <<redis, now, build, nextId, topic, offset, outTopic, steps,
                   upd, calls, faults>>

NextScore ==
    \/ ScorePair
    \/ ScoreReturned

SpecScore == InitScore /\ [][NextScore]_vars

\* ---------------------------------------------------------------------
\* The two compatibilities of CalculateMatchScore on their own: the
\* experience and the location of two profiles
\* ---------------------------------------------------------------------
Blank == <<" ">>

SanFranciscoTight == <<"s", "f", ",", "c", "a">>

SanFranciscoOpen == <<"S", "F", ",">>

LosAngelesOpen == <<"L", "A", ",">>

NewYorkTyped == <<"n", "y", " ">>

\* experiences 0 to 13 years apart, either way round
CompatFirstExperience == {0, 2}

CompatSecondExperience == 0..13

\* locations that are empty, blank, equal up to case and outer spaces,
\* equal up to inner spaces, equal in a city or a state, equal in an
\* empty segment only, and different
CompatLocations ==
    {<<>>, Blank, SanFrancisco, SanFranciscoTyped, SanFranciscoTight,
     SanFranciscoOpen, LosAngeles, LosAngelesOpen, NewYork, NewYorkTyped}

CompatProfiles(userID, experience) ==
    {NewProfile(userID, [Backend EXCEPT !.Experience = e, !.Location = l]) :
        e \in experience, l \in CompatLocations}

InitCompat ==
    /\ redis = [k \in {} |-> Nil]
    /\ now = 0
    /\ build \in Builds
    /\ nextId = 1
    /\ topic = <<>>
    /\ offset = 0
    /\ outTopic = <<>>
    /\ \E a \in CompatProfiles("u1", CompatFirstExperience),
          b \in CompatProfiles("u2", CompatSecondExperience) :
          proc = [t \in Threads |->
                     IF t = "api"
                     THEN [Idle EXCEPT !.userProfile = a, !.profile = b]
                     ELSE Idle]
    /\ steps = <<>>
    /\ upd = UpdIdle
    /\ calls = 0
    /\ faults = 0

\* the two calls of CalculateMatchScore, in both orders of the profiles
ComparePair ==
    /\ proc["api"].pc = "idle"
    /\ \E profile1 \in {proc["api"].userProfile}, profile2 \in {proc["api"].profile} :
          proc' = [proc EXCEPT
                      !["api"].pc = "compared",
                      !["api"].result =
                          [experience |-> calculateExperienceCompatibility(
                                              profile1.Experience, profile2.Experience),
                           location   |-> calculateLocationCompatibility(
                                              profile1.Location, profile2.Location),
                           experienceSwapped |->
                               calculateExperienceCompatibility(
                                   profile2.Experience, profile1.Experience),
                           locationSwapped |->
                               calculateLocationCompatibility(
                                   profile2.Location, profile1.Location)]]
    /\ UNCHANGED <<redis, now, build, nextId, topic, offset, outTopic, steps,
                   upd, calls, faults>>

CompareReturned ==
    /\ proc["api"].pc = "compared"
    /\ proc' = [proc EXCEPT !["api"].pc = "idle", !["api"].result = NoResult]
    /\ UNCHANGED <<redis, now, build, nextId, topic, offset, outTopic, steps,
                   upd, calls, faults>>

NextCompat ==
    \/ ComparePair
    \/ CompareReturned

SpecCompat == InitCompat /\ [][NextCompat]_vars

\* ---------------------------------------------------------------------
\* The consumer on its own, fed by the producer.  The goroutine of
\* StartConsumer is never blocked for good: every call to Redis and Kafka
\* returns, and ReadMessage returns a message that has been delivered
\* after finitely many errors.  So a step of the consumer that stays
\* possible is taken; a read that fails leaves everything as it is.
\* ---------------------------------------------------------------------
Consume ==
    \/ ReadMessage
    \/ StoreUserProfile("consumer")
    \/ FindMatchesGet("consumer")
    \/ FindMatchesKeys("consumer")
    \/ FindMatchesScan("consumer")
    \/ StoreMatch("consumer")
    \/ PublishMatchesCreated
    \/ Returned("consumer")

NextLive ==
    \/ PublishUserUpdated
    \/ ReadError
    \/ Consume

LiveSpec == Init /\ [][NextLive]_vars /\ WF_vars(Consume)

\* ---------------------------------------------------------------------
\* The matches over their life: the consumer fed by the producer, the
\* requests of UpdateMatchStatus, and the days going by until past the
\* time to live of a match
\* ---------------------------------------------------------------------
MaxDays == 8

MaxKept == 3

\* the producer over a log of up to MaxKept messages
PublishKept ==
    /\ offset + Len(topic) < MaxKept
    /\ Admit
    /\ \E data \in Events : topic' = Append(topic, data)
    /\ UNCHANGED <<redis, now, build, nextId, offset, outTopic, proc, steps,
                   upd, calls, faults>>

\* a day passes and Redis evicts the keys whose time to live has run out;
\* the handling of an event or of a request takes far less than a day, so
\* the day ends between two of them
Day ==
    /\ proc["consumer"].pc = "idle"
    /\ upd.pc = "idle"
    /\ now < MaxDays * TickHours
    /\ now' = now + TickHours
    /\ redis' = RedisExpire(redis, now')
    /\ UNCHANGED <<build, nextId, topic, offset, outTopic, proc, steps, upd,
                   calls, faults>>

NextKeep ==
    \/ PublishKept
    \/ Consume
    \/ UpdateMatchStatusGet
    \/ UpdateMatchStatusSet
    \/ UpdateMatchStatusReturned
    \/ Day

\* the state after construction, in a run whose calls all go through
InitKeep ==
    /\ redis = [k \in {} |-> Nil]
    /\ now = 0
    /\ build \in Builds
    /\ nextId = 1
    /\ topic = <<>>
    /\ offset = 0
    /\ outTopic = <<>>
    /\ proc = [t \in Threads |-> Idle]
    /\ steps = <<>>
    /\ upd = UpdIdle
    /\ calls = 0
    /\ faults = MaxFaults

KeepSpec == InitKeep /\ [][NextKeep]_vars

\* ---------------------------------------------------------------------
\* The two read handlers, GetMatches and SearchMatches, over a store that
\* holds the profiles of the first users and the matches FindMatches made
\* for u1, one of them accepted since
\* ---------------------------------------------------------------------
\* the width of an int.  On the platforms the service is built for Go's
\* int has 64 bits; the model keeps the two's complement wrap-around of
\* an int and the range strconv.Atoi accepts at a width TLC can compute
\* with.  Every list of the model is far shorter than the largest int.
IntBits == 16

MaxInt == 2 ^ (IntBits - 1) - 1

MinInt == -(2 ^ (IntBits - 1))

\* the int a sum of two ints yields
WrapInt(x) == ((x - MinInt) % (2 ^ IntBits)) + MinInt

Digits == <<"0", "1", "2", "3", "4", "5", "6", "7", "8", "9">>

IsDigit(c) == \E i \in 1..Len(Digits) : Digits[i] = c

DigitValue(c) == (CHOOSE i \in 1..Len(Digits) : Digits[i] = c) - 1

\* the number a string of digits denotes, as far as it matters: the
\* reading stops once the number is out of the range of an int
RECURSIVE Magnitude(_, _)
Magnitude(s, acc) ==
    IF s = <<>> \/ acc > MaxInt + 1 THEN acc
    ELSE Magnitude(Tail(s), acc * 10 + DigitValue(Head(s)))

\* strconv.Atoi: an optional sign and decimal digits within the range of
\* an int, or an error
SyntaxError == [value |-> 0, err |-> TRUE]

Unsigned(s) == IF Len(s) > 0 /\ s[1] \in {"+", "-"} THEN Tail(s) ELSE s

Atoi(s) ==
    IF Unsigned(s) = <<>> \/ \E i \in 1..Len(Unsigned(s)) : ~IsDigit(Unsigned(s)[i])
    THEN SyntaxError
    ELSE Only({IF s[1] = "-"
               THEN IF n > MaxInt + 1 THEN SyntaxError
                    ELSE [value |-> -n, err |-> FALSE]
               ELSE IF n > MaxInt THEN SyntaxError
                    ELSE [value |-> n, err |-> FALSE] :
                 n \in {Magnitude(Unsigned(s), 0)}})

\* strconv.Itoa of a natural number
RECURSIVE Itoa(_)
Itoa(n) ==
    IF n < 10 THEN <<Digits[n + 1]>>
    ELSE Append(Itoa(n \div 10), Digits[(n % 10) + 1])

\* the int of a query parameter: the default when the parameter is
\* absent or is no number
QueryInt(s, default) ==
    Only({IF parsed.err THEN default ELSE parsed.value :
            parsed \in {Atoi(IF s = <<>> THEN Itoa(default) ELSE s)}})

DefaultLimit == 10

DefaultOffset == 0

\* s[low:high] of a slice of length and capacity Len(s): a panic when the
\* bounds are not 0 <= low <= high <= Len(s)
Slice(s, low, high) ==
    IF 0 <= low /\ low <= high /\ high <= Len(s)
    THEN [panic |-> FALSE, page |-> SubSeq(s, low + 1, high)]
    ELSE [panic |-> TRUE, page |-> <<>>]

\* the pagination of GetMatches
PageOfMatches(matches, pageOffset, pageLimit) ==
    Only({IF pageOffset >= total THEN [panic |-> FALSE, page |-> <<>>]
          ELSE Slice(matches, pageOffset, IF end > total THEN total ELSE end) :
            total \in {Len(matches)}, end \in {WrapInt(pageOffset + pageLimit)}})

\* what gin's Recovery answers when a handler panics
Panicked == [code |-> 500, panic |-> TRUE]

\* the requests of GetMatches: a user with matches, a user matched by
\* another, a user without matches; no status, a status some matches
\* have, a status none has; limits and offsets absent, not a number, out
\* of the range of an int, negative, zero, small and the largest int
QueryUsers == {"", "u1", "u2", "u9"}

QueryStatuses == {"", "pending", "accepted", "rejected"}

QueryLimits ==
    {<<>>, <<"x">>, <<"-", "1">>, <<"0">>, <<"1">>, <<"2">>,
     Itoa(MaxInt), Itoa(MaxInt + 1)}

QueryOffsets == {<<>>, <<"-", "1">>, <<"0">>, <<"1">>, <<"2">>, <<"5">>}

GetMatches ==
    /\ proc["api"].pc = "idle"
    /\ \E userID \in QueryUsers, status \in QueryStatuses,
          limitStr \in QueryLimits, offsetStr \in QueryOffsets,
          keys \in {ByID(redis, now), ByIDReversed(redis, now)},
          ok \in Outcomes :
       \E pageLimit \in {QueryInt(limitStr, DefaultLimit)},
          pageOffset \in {QueryInt(offsetStr, DefaultOffset)},
          listed \in {GetMatchesForUser(redis, userID, keys, now)} :
       \E matches \in {IF status = "" THEN listed
                        ELSE SelectSeq(listed, LAMBDA m : m.Status = status)} :
       \E paged \in {PageOfMatches(matches, pageOffset, pageLimit)} :
       \E result \in {IF userID = ""
                       THEN [code |-> 400, error |-> "User ID is required"]
                       ELSE IF ~ok
                       THEN [code |-> 500, error |-> "Failed to retrieve matches"]
                       ELSE IF paged.panic THEN Panicked
                       ELSE [code    |-> 200,
                             matches |-> paged.page,
                             total   |-> Len(matches)]} :
          /\ faults' = IF userID = "" THEN faults ELSE Count(ok)
          /\ proc' = [proc EXCEPT !["api"] =
                         [Idle EXCEPT
                             !.pc = "return", !.userID = userID, !.keys = keys,
                             !.request = [handler |-> "GetMatches",
                                          UserID  |-> userID,
                                          Status  |-> status,
                                          Limit   |-> pageLimit,
                                          Offset  |-> pageOffset],
                             !.result = result]]
    /\ UNCHANGED <<redis, now, build, nextId, topic, offset, outTopic, steps,
                   upd, calls>>

\* a filter that leaves the experience out
matchesCriteriaAnyExperience(profile, criteria) ==
    /\ Len(criteria.Industries) > 0 =>
          \E i \in 1..Len(criteria.Industries), j \in 1..Len(profile.Industries) :
              ToLower(criteria.Industries[i]) = ToLower(profile.Industries[j])
    /\ Len(criteria.Skills) > 0 =>
          \E i \in 1..Len(criteria.Skills), j \in 1..Len(profile.Skills) :
              ToLower(criteria.Skills[i]) = ToLower(profile.Skills[j])
    /\ criteria.Location # <<>> =>
          Contains(ToLower(profile.Location), ToLower(criteria.Location))

matchesCriteria(profile, criteria) ==
    /\ Len(criteria.Industries) > 0 =>
          \E i \in 1..Len(criteria.Industries), j \in 1..Len(profile.Industries) :
              ToLower(criteria.Industries[i]) = ToLower(profile.Industries[j])
    /\ ~(criteria.MinExp > 0 /\ profile.Experience < criteria.MinExp)
    /\ ~(criteria.MaxExp > 0 /\ profile.Experience > criteria.MaxExp)
    /\ Len(criteria.Skills) > 0 =>
          \E i \in 1..Len(criteria.Skills), j \in 1..Len(profile.Skills) :
              ToLower(criteria.Skills[i]) = ToLower(profile.Skills[j])
    /\ criteria.Location # <<>> =>
          Contains(ToLower(profile.Location), ToLower(criteria.Location))

\* a difference that keeps its sign
signed(x) == x

\* the reasons generateMatchReason joins into one string
abs(x) == IF x < 0 THEN -x ELSE x

generateMatchReason(profile1, profile2) ==
    Only({IF Len(reasons) = 0
          THEN <<[reason |-> "Good overall compatibility", of |-> <<>>]>>
          ELSE reasons :
        reasons \in {
            Only({(IF Len(commonTags) > 0
                   THEN <<[reason |-> "Common interests", of |-> commonTags]>>
                   ELSE <<>>)
                  \o (IF Len(commonSkills) > 0
                      THEN <<[reason |-> "Common skills", of |-> commonSkills]>>
                      ELSE <<>>)
                  \o (IF expDiff <= 2
                      THEN <<[reason |-> "Similar experience level", of |-> <<>>]>>
                      ELSE <<>>)
                  \o (IF /\ profile1.Location # <<>>
                         /\ profile2.Location # <<>>
                         /\ ToLower(profile1.Location) = ToLower(profile2.Location)
                      THEN <<[reason |-> "Same location", of |-> <<>>]>>
                      ELSE <<>>) :
                commonTags \in {FindCommonTags(profile1.Tags, profile2.Tags)},
                commonSkills \in {FindCommonSkills(profile1.Skills, profile2.Skills)},
                expDiff \in {abs(profile1.Experience - profile2.Experience)}})}})

\* a loop that keeps every profile that passes the filters, whatever its
\* score
SearchScoresAll(target, userProfile, profiles, criteria) ==
    Only({SortByScore(
            <<>> \o [k \in 1..Len(kept) |->
                [UserID |-> kept[k].UserID,
                 Score  |-> Score(target, userProfile, kept[k]),
                 Reason |-> generateMatchReason(userProfile, kept[k])]]) :
          kept \in {SelectSeq(profiles, LAMBDA p :
                        /\ p.UserID # criteria.UserID
                        /\ matchesCriteria(p, criteria))}})

\* the loop of SearchMatches over the profiles read and the sort
SearchScores(target, userProfile, profiles, criteria) ==
    Only({SortByScore(
            <<>> \o [k \in 1..Len(kept) |->
                [UserID |-> kept[k].UserID,
                 Score  |-> Score(target, userProfile, kept[k]),
                 Reason |-> generateMatchReason(userProfile, kept[k])]]) :
          kept \in {SelectSeq(profiles, LAMBDA p :
                        /\ p.UserID # criteria.UserID
                        /\ matchesCriteria(p, criteria)
                        /\ AboveThreshold(Score(target, userProfile, p)))}})

\* the pagination of SearchMatches
PageOfScores(matches, criteria) ==
    Only({IF criteria.Limit > 0 /\ criteria.Offset < Len(matches)
          THEN Slice(matches, criteria.Offset,
                     IF end > Len(matches) THEN Len(matches) ELSE end)
          ELSE [panic |-> FALSE, page |-> matches] :
            end \in {WrapInt(criteria.Offset + criteria.Limit)}})

\* the criteria of SearchMatches: a user with a profile and one without;
\* industries, skills and a location given or not, in another casing
\* than the profiles have; experience bounds absent, above every
\* profile, around some, and negative; limits and offsets that are
\* zero, small, negative, beyond the results and the largest int
SearchCriteria ==
    {[UserID |-> u, Tags |-> <<>>, Industries |-> i, MinExp |-> e[1],
      MaxExp |-> e[2], Skills |-> s, Location |-> l, Limit |-> n,
      Offset |-> o] :
        u \in {"u1", "u9"},
        i \in {<<>>, <<<<"F", "I", "N">>>>, <<<<"l", "a", "w">>>>},
        e \in {<<0, 0>>, <<15, 0>>, <<2, 14>>, <<0, 5>>, <<-1, -1>>},
        s \in {<<>>, <<go>>},
        l \in {<<>>, <<"c", "a">>, <<"N", "Y">>},
        n \in {0, 1, MaxInt},
        o \in {-1, 0, 1, 4}}

SearchMatches ==
    /\ proc["api"].pc = "idle"
    /\ \/ /\ proc' = Return("api", [code |-> 400])
          /\ UNCHANGED faults
       \/ \E criteria \in SearchCriteria,
             order \in KeyOrders(RedisKeys(redis, ProfilePrefix, now)),
             okKeys \in Outcomes :
          \E okGet \in IF okKeys THEN Outcomes ELSE {TRUE} :
          \E read \in {<<>> \o [k \in 1..Len(order) |->
                          UnmarshalProfile(RedisGet(redis, order[k], now))]},
             userProfile \in {GetUserProfile(redis, criteria.UserID, now)} :
          \E matches \in {IF okKeys /\ okGet /\ userProfile \notin {Nil, DecodeError}
                           THEN SearchScores(build, userProfile,
                                    SelectSeq(read, LAMBDA p :
                                        p \notin {Nil, DecodeError}),
                                    criteria)
                           ELSE <<>>} :
          \E paged \in {PageOfScores(matches, criteria)} :
          \E result \in {IF ~okKeys
                          THEN [code |-> 500, error |-> "Failed to retrieve profiles"]
                          ELSE IF ~okGet \/ userProfile \in {Nil, DecodeError}
                          THEN [code |-> 404, error |-> "User profile not found"]
                          ELSE IF paged.panic THEN Panicked
                          ELSE [code    |-> 200,
                                matches |-> paged.page,
                                total   |-> Len(paged.page)]} :
             /\ faults' = IF okKeys /\ okGet THEN faults ELSE faults + 1
             /\ proc' = [proc EXCEPT !["api"] =
                            [Idle EXCEPT
                                !.pc = "return", !.userID = criteria.UserID,
                                !.request = [handler  |-> "SearchMatches",
                                             criteria |-> criteria],
                                !.matches = matches,
                                !.result = result]]
    /\ UNCHANGED <<redis, now, build, nextId, topic, offset, outTopic, steps,
                   upd, calls>>

\* the profiles a store holds for the first users, u1 first
QueryStores ==
    {<<Mentor>>, <<Mentor, Analyst>>, <<Mentor, Analyst, Mentor, Backend>>,
     <<Analyst, Mentor, Mentor, Mentor>>}

QueryProfiles(attrs) ==
    <<>> \o [i \in 1..Len(attrs) |-> NewProfile(GenUsers[i], attrs[i])]

\* the matches FindMatches made for u1 at hour 0
QueryMatches(target, attrs) ==
    Only({RankMatches(target, "u1", profiles[1], profiles, 1, 0) :
            profiles \in {QueryProfiles(attrs)}})

\* the store with those profiles and matches, the match at one place of
\* the result accepted by UpdateMatchStatus
QueryStore(target, attrs, accepted) ==
    Only({[key \in {<<ProfilePrefix, profiles[i].UserID>> : i \in 1..Len(profiles)}
                   \cup {<<MatchPrefix, stored[k].ID>> : k \in 1..Len(stored)} |->
              IF key[1] = ProfilePrefix
              THEN [val |-> MarshalProfile(profiles[UserIndex(key[2])]),
                    exp |-> ProfileTTL]
              ELSE [val |-> MarshalMatch(stored[CHOOSE k \in 1..Len(stored) :
                                                    stored[k].ID = key[2]]),
                    exp |-> MatchTTL]] :
            profiles \in {QueryProfiles(attrs)},
            stored \in {Only({[k \in 1..Len(matches) |->
                                  IF k = accepted
                                  THEN [matches[k] EXCEPT !.Status = "accepted"]
                                  ELSE matches[k]] :
                              matches \in {QueryMatches(target, attrs)}})}})

InitQuery ==
    /\ now = 0
    /\ build \in Builds
    /\ \E attrs \in QueryStores :
       \E accepted \in 0..Len(QueryMatches(build, attrs)) :
          /\ redis = QueryStore(build, attrs, accepted)
          /\ nextId = Len(QueryMatches(build, attrs)) + 1
    /\ topic = <<>>
    /\ offset = 0
    /\ outTopic = <<>>
    /\ proc = [t \in Threads |-> Idle]
    /\ steps = <<>>
    /\ upd = UpdIdle
    /\ calls = 0
    /\ faults = 0

NextQuery ==
    \/ GetMatches
    \/ SearchMatches
    \/ Returned("api")

SpecQuery == InitQuery /\ [][NextQuery]_vars

\* ---------------------------------------------------------------------
\* The lookups by id: GetUserProfile, GetMatchDetails and
\* UpdateMatchStatus over a store that holds profiles and matches, while
\* time passes and calls to Redis fail
\* ---------------------------------------------------------------------
\* the handler GetUserProfile: Service.GetUserProfile returns an error
\* when the GET fails, when the key is gone and when the value does not
\* decode, and the handler answers each of them with 404
HandleGetUserProfile ==
    /\ proc["api"].pc = "idle"
    /\ \E userID \in QueryUsers, ok \in Outcomes :
       \E profile \in {GetUserProfile(redis, userID, now)} :
       \E result \in {IF userID = ""
                       THEN [code |-> 400, error |-> "User ID is required"]
                       ELSE IF ~ok \/ profile \in {Nil, DecodeError}
                       THEN [code |-> 404, error |-> "User profile not found"]
                       ELSE [code |-> 200, profile |-> profile]} :
          /\ faults' = IF userID = "" THEN faults ELSE Count(ok)
          /\ proc' = [proc EXCEPT !["api"] =
                         [Idle EXCEPT
                             !.pc = "return", !.userID = userID,
                             !.request = [handler |-> "GetUserProfile",
                                          UserID  |-> userID],
                             !.result = result]]
    /\ UNCHANGED <<redis, now, build, nextId, topic, offset, outTopic, steps,
                   upd, calls>>

\* the handler GetMatchDetails: a GET that returns an error, redis.Nil
\* among them, is a 404, a value that does not decode a 500
HandleGetMatchDetails ==
    /\ proc["api"].pc = "idle"
    /\ \E matchID \in 0..MaxIds, ok \in Outcomes :
       \E match \in {GetMatchDetails(redis, matchID, now)} :
       \E result \in {IF matchID = 0
                       THEN [code |-> 400, error |-> "Match ID is required"]
                       ELSE IF ~ok \/ match = Nil
                       THEN [code |-> 404, error |-> "Match not found"]
                       ELSE IF match = DecodeError
                       THEN [code |-> 500, error |-> "Failed to parse match data"]
                       ELSE [code |-> 200, match |-> match]} :
          /\ faults' = IF matchID = 0 THEN faults ELSE Count(ok)
          /\ proc' = [proc EXCEPT !["api"] =
                         [Idle EXCEPT
                             !.pc = "return",
                             !.request = [handler |-> "GetMatchDetails",
                                          MatchID |-> matchID],
                             !.result = result]]
    /\ UNCHANGED <<redis, now, build, nextId, topic, offset, outTopic, steps,
                   upd, calls>>

NextLookup ==
    \/ HandleGetUserProfile
    \/ HandleGetMatchDetails
    \/ Returned("api")
    \/ UpdateMatchStatusGet
    \/ UpdateMatchStatusSet
    \/ UpdateMatchStatusReturned
    \/ Tick

SpecLookup == InitQuery /\ [][NextLookup]_vars

\* ---------------------------------------------------------------------
\* FindMatches and SearchMatches over the same store: the profiles of
\* the first n users, enough of them for FindMatches to cut its result
\* ---------------------------------------------------------------------
\* how many users have put a profile, and the attributes of all but the
\* last of them and of the last: a user finds 2 others, or 11 of whom 10
\* are alike and the last scores lower, at or just above 0.3 in one case;
\* every call to Redis goes through
SameSizes == {3, 12}

SameAttributes == {<<Mentor, Analyst>>, <<Backend, Mentor>>}

InitSame ==
    /\ \E n \in SameSizes, attrs \in SameAttributes :
          redis = [k \in {<<ProfilePrefix, GenUsers[i]>> : i \in 1..n} |->
                      [val |-> MarshalProfile(
                                   NewProfile(k[2], IF k[2] = GenUsers[n]
                                                    THEN attrs[2]
                                                    ELSE attrs[1])),
                       exp |-> ProfileTTL]]
    /\ now = 0
    /\ build \in Builds
    /\ nextId = 1
    /\ topic = <<>>
    /\ offset = 0
    /\ outTopic = <<>>
    /\ proc = [t \in Threads |-> Idle]
    /\ steps = <<>>
    /\ upd = UpdIdle
    /\ calls = 0
    /\ faults = MaxFaults

NextSame ==
    \/ FindMatches
    \/ FindMatchesReturned
    \/ SearchMatches
    \/ Returned("api")

SpecSame == InitSame /\ [][NextSame]_vars

\* ---------------------------------------------------------------------
\* generateMatchReason on its own, applied to the requester's profile and
\* a candidate's
\* ---------------------------------------------------------------------
SanFranciscoLower == <<"s", "f", ",", " ", "c", "a">>

\* requesters with and without a tag, a skill and a location, one of them
\* blank; candidates whose tags and skills are absent, the same under
\* another casing, and different, with experiences 0 to 3 years away on
\* either side and locations that are empty, the same, the same up to
\* case, the same up to outer spaces, and different
ReasonFirstProfiles ==
    {NewProfile("u1", [Tags |-> t, Industries |-> <<fin>>, Experience |-> 1,
                       Interests |-> <<>>, Location |-> l, Bio |-> "",
                       Skills |-> s]) :
        t \in {<<>>, <<ml>>}, s \in {<<>>, <<sql>>},
        l \in {<<>>, <<" ">>, SanFrancisco}}

ReasonSecondProfiles ==
    {NewProfile("u2", [Tags |-> t, Industries |-> <<fin>>, Experience |-> e,
                       Interests |-> <<>>, Location |-> l, Bio |-> "",
                       Skills |-> s]) :
        t \in {<<>>, <<go, ML>>, <<go>>}, s \in {<<>>, <<SQL>>, <<rlang>>},
        e \in {-2, -1, 1, 3, 4},
        l \in {<<>>, SanFrancisco, SanFranciscoLower, SanFranciscoTyped, NewYork}}

InitReason ==
    /\ redis = [k \in {} |-> Nil]
    /\ now = 0
    /\ build \in Builds
    /\ nextId = 1
    /\ topic = <<>>
    /\ offset = 0
    /\ outTopic = <<>>
    /\ \E a \in ReasonFirstProfiles, b \in ReasonSecondProfiles :
          proc = [t \in Threads |->
                     IF t = "api"
                     THEN [Idle EXCEPT !.userProfile = a, !.profile = b]
                     ELSE Idle]
    /\ steps = <<>>
    /\ upd = UpdIdle
    /\ calls = 0
    /\ faults = 0

\* the call SearchMatches makes for a candidate it keeps
ExplainPair ==
    /\ proc["api"].pc = "idle"
    /\ proc' = [proc EXCEPT
                   !["api"].pc = "explained",
                   !["api"].result =
                       [reason |-> generateMatchReason(proc["api"].userProfile,
                                                       proc["api"].profile)]]
    /\ UNCHANGED <<redis, now, build, nextId, topic, offset, outTopic, steps,
                   upd, calls, faults>>

ExplainReturned ==
    /\ proc["api"].pc = "explained"
    /\ proc' = [proc EXCEPT !["api"].pc = "idle", !["api"].result = NoResult]
    /\ UNCHANGED <<redis, now, build, nextId, topic, offset, outTopic, steps,
                   upd, calls, faults>>

NextReason ==
    \/ ExplainPair
    \/ ExplainReturned

SpecReason == InitReason /\ [][NextReason]_vars

\* ---------------------------------------------------------------------
\* Properties
\* ---------------------------------------------------------------------
\* the float64 that the literal 0.3 denotes
ZeroPointThree == FLit(3, 10)

\* the profiles FindMatches read that are not the user's own and score
\* above 0.3 against the user's
Candidates(t) ==
    {k \in 1..Len(proc[t].profiles) :
        /\ proc[t].profiles[k].UserID # proc[t].userID
        /\ FGt(Score(build, proc[t].userProfile, proc[t].profiles[k]), ZeroPointThree)}

\* C1: whatever the profile store holds, FindMatches returns at most 10
\* matches and every match it returns has a score strictly above 0.3.
C1_AtMostTenAboveThreshold ==
    proc["api"].pc = "found" =>
        /\ Len(proc["api"].matches) <= 10
        /\ \A k \in 1..Len(proc["api"].matches) :
              FGt(proc["api"].matches[k].Score, ZeroPointThree)

\* FindMatches returned 10 matches out of 11 candidates above the threshold
\* and left out a profile that scores exactly 0.3
C1_Witness ==
    /\ proc["api"].pc = "found"
    /\ Len(proc["api"].matches) = 10
    /\ Cardinality(Candidates("api")) = 11
    /\ \E k \in 1..Len(proc["api"].profiles) :
          /\ proc["api"].profiles[k].UserID # proc["api"].userID
          /\ Score(build, proc["api"].userProfile, proc["api"].profiles[k])
                = ZeroPointThree
          /\ \A j \in 1..Len(proc["api"].matches) :
                proc["api"].matches[j].UserID2 # proc["api"].profiles[k].UserID

\* the keys of the matches and of the profiles a database holds
StoredMatches(db) == {k \in DOMAIN db : k[1] = MatchPrefix}

StoredProfiles(db) == {k \in DOMAIN db : k[1] = ProfilePrefix}

\* C2: FindMatches never pairs a user with themselves: no match it has
\* returned and no match in the store names the same user twice.
C2_NoSelfPair ==
    /\ \A t \in Threads : \A k \in 1..Len(proc[t].matches) :
          proc[t].matches[k].UserID1 # proc[t].matches[k].UserID2
    /\ \A k \in StoredMatches(redis) :
          redis[k].val.user_id_1 # redis[k].val.user_id_2

\* a match is stored while the profile of its first user, which the loop
\* passed over, is in the store next to the profile of its second user
C2_Witness ==
    \E k \in StoredMatches(redis) :
        /\ Live(redis, <<ProfilePrefix, redis[k].val.user_id_1>>, now)
        /\ Live(redis, <<ProfilePrefix, redis[k].val.user_id_2>>, now)

\* C3: every match in the store has a score strictly above 0.3.
C3_StoredAboveThreshold ==
    \A k \in StoredMatches(redis) : FGt(redis[k].val.score, ZeroPointThree)

\* the float64 that the literal 0.31 denotes
ZeroPointThreeOne == FLit(31, 100)

\* a match whose score lies between 0.3 and 0.31 is stored and has been
\* accepted since
C3_Witness ==
    \E k \in StoredMatches(redis) :
        /\ redis[k].val.status = "accepted"
        /\ FGt(redis[k].val.score, ZeroPointThree)
        /\ FGt(ZeroPointThreeOne, redis[k].val.score)

\* the consumer has returned nil from ProcessUserUpdate
ProcessedNil ==
    /\ proc["consumer"].pc = "return"
    /\ proc["consumer"].result = Succeeded("consumer", <<>>)

\* the records of the matches-created topic written for a match id
Published(id) == {i \in 1..Len(outTopic) : outTopic[i].Key = id}

\* C4: for an event the consumer first puts the event's snapshot into the
\* profile store, then runs FindMatches for the event's subject, then
\* stores each match returned, in order, then writes one matches-created
\* message per match returned, in order, each id appearing on the topic
\* once if its write went through; with no match returned nothing is stored
\* or written.  A return of nil has gone through all of these.
C4_PipelineOrder ==
    steps # <<>> =>
        LET event == steps[1][2]
            n     == Len(steps)
        IN  /\ steps[1][1] = "event"
            /\ n >= 2 => steps[2][1] = "put" /\ steps[2][2] = event.Profile
            /\ ProcessedNil => n >= 3
            /\ n >= 3 =>
                LET ids == steps[3][3]
                    m   == Len(ids)
                IN  /\ steps[2][3]
                    /\ steps[3][1] = "gen"
                    /\ steps[3][2] = event.UserID
                    /\ n <= 3 + 2 * m
                    /\ \A j \in 4..n :
                          IF j <= 3 + m
                          THEN steps[j][1] = "persist" /\ steps[j][2] = ids[j - 3]
                          ELSE steps[j][1] = "publish" /\ steps[j][2] = ids[j - 3 - m]
                    /\ ProcessedNil => n = 3 + 2 * m
                    /\ \A j \in 1..m :
                          Cardinality(Published(ids[j])) =
                              IF \E i \in (4 + m)..n : steps[i] = <<"publish", ids[j], TRUE>>
                              THEN 1 ELSE 0

\* the consumer has gone through an event for which FindMatches returned
\* two matches: put, generate, two stores and two writes, both on the topic
C4_Witness ==
    /\ ProcessedNil
    /\ Len(steps) = 7
    /\ Len(steps[3][3]) = 2
    /\ \A j \in 1..2 : Cardinality(Published(steps[3][3][j])) = 1

\* the n-th message of the log is delivered and not yet read
Delivered(n, data) ==
    /\ offset < n
    /\ n <= offset + Len(topic)
    /\ topic[n - offset] = data

\* the consumer is in ProcessUserUpdate for the n-th message and has just
\* called StoreUserProfile with the snapshot of the event, which the store
\* holds if the call went through
Put(n, event) ==
    /\ offset = n
    /\ Len(steps) = 2
    /\ steps[1][2] = event
    /\ steps[2][1] = "put"
    /\ steps[2][2] = event.Profile
    /\ steps[2][3] =>
          GetUserProfile(redis, event.Profile.UserID, now) = event.Profile

\* C5: whatever reads failed, whatever messages did not decode and
\* whatever errors ProcessUserUpdate returned before, the loop goes on:
\* every event delivered to the log reaches ProcessUserUpdate, which puts
\* its snapshot into the profile store.
C5_EveryEventProcessed ==
    \A n \in 1..MaxLog : \A data \in Events \ {Garbage} :
        Delivered(n, data) ~> Put(n, UnmarshalEvent(data))

\* the snapshot of the second event is in the store although a call made
\* for the first message failed
C5_Witness ==
    /\ faults = 1
    /\ \E data \in Events \ {Garbage} :
          /\ Put(2, UnmarshalEvent(data))
          /\ steps[2][3]

\* C6, as the spec states its consequence: with no other writer, no failed
\* call and no expiry, once the consumer has gone through an event and the
\* log is drained, GetUserProfile of the event's subject returns the
\* snapshot the event carried.
C6_SubjectHoldsLastSnapshot ==
    (/\ proc["consumer"].pc = "return"
     /\ topic = <<>>
     /\ calls = 0
     /\ faults = 0
     /\ now = 0)
    => GetUserProfile(redis, steps[1][2].UserID, now) = steps[1][2].Profile

\* C7: a step leaves the id, the users, the score, the common tags and
\* skills and the creation time of every stored match as they are, and the
\* status and update time too unless the step is the write of
\* UpdateMatchStatus for that match.
C7_StoredMatchUnchanged ==
    [][\A k \in StoredMatches(redis) \cap StoredMatches(redis') :
          LET old == redis[k].val
              new == redis'[k].val
          IN  /\ new.id = old.id
              /\ new.user_id_1 = old.user_id_1
              /\ new.user_id_2 = old.user_id_2
              /\ new.score = old.score
              /\ new.common_tags = old.common_tags
              /\ new.common_skills = old.common_skills
              /\ new.created_at = old.created_at
              /\ (new.status # old.status \/ new.updated_at # old.updated_at) =>
                    /\ upd.pc = "set"
                    /\ upd'.pc = "return"
                    /\ upd.match.ID = k[2]]_vars

\* a stored match keeps the common tags it was created with although the
\* profiles its two users have in the store now share no tag
C7_Witness ==
    \E k \in StoredMatches(redis) :
        LET p1 == GetUserProfile(redis, redis[k].val.user_id_1, now)
            p2 == GetUserProfile(redis, redis[k].val.user_id_2, now)
        IN  /\ p1 # Nil
            /\ p2 # Nil
            /\ redis[k].val.common_tags # <<>>
            /\ FindCommonTags(p1.Tags, p2.Tags) = <<>>

\* C8: storing a match FindMatches returned adds a record under an id no
\* stored match has and leaves every stored record as it is, so a second
\* run for the same pair adds a second record.
C8_StoreAddsRecord ==
    [][\A t \in Threads :
          (proc[t].pc = "persist" /\ proc'[t] # proc[t] /\ redis' # redis) =>
              LET key == <<MatchPrefix, proc[t].matches[proc[t].i].ID>>
              IN  /\ key \notin DOMAIN redis
                  /\ DOMAIN redis' = DOMAIN redis \cup {key}
                  /\ \A k \in DOMAIN redis : redis'[k] = redis[k]]_vars

\* two stored matches pair the same users with the same score under
\* different ids
C8_Witness ==
    \E k1, k2 \in StoredMatches(redis) :
        /\ k1 # k2
        /\ redis[k1].val.user_id_1 = redis[k2].val.user_id_1
        /\ redis[k1].val.user_id_2 = redis[k2].val.user_id_2
        /\ redis[k1].val.score = redis[k2].val.score
        /\ redis[k1].val.common_tags = redis[k2].val.common_tags

\* the profiles requests and events carry
Written ==
    Requests \cup {UnmarshalEvent(e).Profile : e \in Events \ {Garbage}}

\* C9: the store holds one profile for a user id, and that profile is one
\* of the profiles written for the user, in full; right after the put of
\* a profile GetUserProfile of its user returns exactly that profile.
C9_PutReplaces ==
    [][/\ \A k \in StoredProfiles(redis') :
             \E p \in Written :
                /\ p.UserID = k[2]
                /\ redis'[k].val = MarshalProfile(p)
       /\ \A t \in Threads :
             (proc[t].pc = "store" /\ proc'[t].pc = "get") =>
                GetUserProfile(redis', proc[t].profile.UserID, now')
                    = proc[t].profile]_vars

\* the consumer and the request have both put a profile for the same user,
\* with different attributes, and the store holds one of the two
C9_Witness ==
    /\ proc["consumer"].pc = "get"
    /\ proc["api"].pc = "get"
    /\ proc["consumer"].profile.UserID = proc["api"].profile.UserID
    /\ proc["consumer"].profile # proc["api"].profile
    /\ GetUserProfile(redis, proc["api"].profile.UserID, now)
          \in {proc["consumer"].profile, proc["api"].profile}

\* C10: a put gives the profile 24 hours from the put, also when the user
\* had a profile; nothing but a put changes the profile or the end of its
\* 24 hours; the profile leaves the store only once the 24 hours are over;
\* while it is in the store GetUserProfile returns it and KEYS lists it,
\* afterwards GetUserProfile returns redis.Nil.
C10_ProfileTTL ==
    [][\A u \in Users :
          LET key == <<ProfilePrefix, u>>
          IN  /\ (key \in DOMAIN redis' /\ (key \notin DOMAIN redis
                                            \/ redis'[key] # redis[key])) =>
                    /\ redis'[key].exp = now' + 24
                    /\ \E t \in Threads :
                          /\ proc[t].pc = "store"
                          /\ proc'[t].pc = "get"
                          /\ proc[t].profile.UserID = u
              /\ (\E t \in Threads :
                     /\ proc[t].pc = "store"
                     /\ proc'[t].pc = "get"
                     /\ proc[t].profile.UserID = u) =>
                    key \in DOMAIN redis' /\ redis'[key].exp = now' + 24
              /\ (key \in DOMAIN redis /\ key \notin DOMAIN redis') =>
                    now' > redis[key].exp
              /\ (key \in DOMAIN redis /\ now' <= redis[key].exp) =>
                    key \in DOMAIN redis'
              /\ key \in DOMAIN redis' =>
                    /\ now' <= redis'[key].exp
                    /\ GetUserProfile(redis', u, now') # Nil
                    /\ key \in RedisKeys(redis', ProfilePrefix, now')
              /\ key \notin DOMAIN redis' =>
                    GetUserProfile(redis', u, now') = Nil]_vars

\* a user who had a profile at hour 0, when a match for the user was
\* created, has put a profile again since and so has one after 48 hours,
\* while the other user of the match has none any more
C10_Witness ==
    /\ now >= 48
    /\ \E k \in StoredMatches(redis) :
          /\ redis[k].val.created_at = 0
          /\ Live(redis, <<ProfilePrefix, redis[k].val.user_id_1>>, now)
          /\ ~Live(redis, <<ProfilePrefix, redis[k].val.user_id_2>>, now)

\* C17: CalculateMatchScore gives the same score for a pair of profiles in
\* either order.
C17_Commutative ==
    proc["api"].pc = "scored" =>
        proc["api"].result.score = proc["api"].result.swapped

\* a pair with an empty tag list on one side only, a location of two
\* segments on one side and none on the other, has been scored both ways
C17_Witness ==
    /\ proc["api"].pc = "scored"
    /\ proc["api"].userProfile.Tags = <<>>
    /\ proc["api"].profile.Tags # <<>>
    /\ proc["api"].userProfile.Location = <<>>
    /\ proc["api"].profile.Location = LosAngeles
    /\ proc["api"].result.score = proc["api"].result.swapped

\* C18: the score of a pair of profiles lies between 0 and 1, and scoring
\* writes nothing to the profile store, the match store or the topics.
C18_ScoreInUnitInterval ==
    proc["api"].pc = "scored" =>
        /\ ~FGt(FZero, proc["api"].result.score)
        /\ ~FGt(proc["api"].result.score, One)
        /\ DOMAIN redis = {}
        /\ outTopic = <<>>

\* two profiles equal in every attribute up to case and spaces score 1
C18_Witness ==
    /\ proc["api"].pc = "scored"
    /\ proc["api"].userProfile.Location = SanFrancisco
    /\ proc["api"].profile.Location = SanFranciscoTyped
    /\ proc["api"].result.score = One

\* the weights as the spec gives them, and their sum
SpecWeights ==
    <<FLit(30, 100), FLit(25, 100), FLit(20, 100), FLit(15, 100), FLit(10, 100)>>

RECURSIVE SpecWeightSum(_)
SpecWeightSum(k) ==
    IF k = 0 THEN FZero
    ELSE Only({FAdd(s, SpecWeights[k]) : s \in {SpecWeightSum(k - 1)}})

TotalSpecWeight == SpecWeightSum(5)

\* the first k sub-scores times their weights, added up in this order as
\* the build adds them
RECURSIVE WeightedSum(_, _, _)
WeightedSum(target, xs, k) ==
    IF k = 0 THEN FZero
    ELSE Only({MulAdd(target, s, xs[k], SpecWeights[k]) :
                 s \in {WeightedSum(target, xs, k - 1)}})

\* C19: the score is 0.30 times the tag similarity plus 0.25 times the
\* industry similarity plus 0.20 times the experience compatibility plus
\* 0.15 times the skill similarity plus 0.10 times the location
\* compatibility, in float64; the weights add up to exactly 1.0; other
\* interests and another bio give the same score.
C19_WeightedAverage ==
    proc["api"].pc = "scored" =>
        LET r == proc["api"].result
        IN  /\ r.score = WeightedSum(build, <<r.tags, r.industries, r.experience,
                                              r.skills, r.location>>, 5)
            /\ TotalSpecWeight = One
            /\ r.rewritten = r.score

\* a pair whose five sub-scores all lie strictly between 0 and 1
C19_Witness ==
    /\ proc["api"].pc = "scored"
    /\ \A x \in {proc["api"].result.tags, proc["api"].result.industries,
                 proc["api"].result.experience, proc["api"].result.skills,
                 proc["api"].result.location} :
          FGt(x, FZero) /\ FGt(One, x)

\* the Jaccard index of the lower-cased sets of two lists
Jaccard(list1, list2) ==
    LET A == {ToLower(x) : x \in Range(list1)}
        B == {ToLower(x) : x \in Range(list2)}
    IN  IF list1 = <<>> /\ list2 = <<>> THEN One
        ELSE IF list1 = <<>> \/ list2 = <<>> THEN FZero
        ELSE Only({FDiv(n, d) : n \in {FFromInt(Cardinality(A \cap B))},
                                d \in {FFromInt(Cardinality(A \cup B))}})

\* C20: the tag, industry and skill sub-scores are the Jaccard index of
\* the lower-cased sets of the two lists, 1.0 for two empty lists and 0.0
\* for one empty list.
C20_Jaccard ==
    proc["api"].pc = "scored" =>
        LET r  == proc["api"].result
            p1 == proc["api"].userProfile
            p2 == proc["api"].profile
        IN  /\ r.tags = Jaccard(p1.Tags, p2.Tags)
            /\ r.industries = Jaccard(p1.Industries, p2.Industries)
            /\ r.skills = Jaccard(p1.Skills, p2.Skills)

\* the float64 0.5
Half == FLit(1, 2)

\* one tag against the same tag and another in two casings gives 1/2, an
\* empty list of industries against a list of two gives 0
C20_Witness ==
    /\ proc["api"].pc = "scored"
    /\ proc["api"].userProfile.Tags = <<go>>
    /\ proc["api"].profile.Tags = <<ML, ml, go>>
    /\ proc["api"].result.tags = Half
    /\ proc["api"].userProfile.Industries = <<>>
    /\ proc["api"].profile.Industries = <<fin, ed>>
    /\ proc["api"].result.industries = FZero

\* C11, as the spec states it: once 7 days have passed since a match was
\* created, GetMatchDetails answers redis.Nil for it and GetMatchesForUser
\* does not return it, whatever its status.
C11_GoneSevenDaysAfterCreation ==
    /\ \A id \in 1..MaxIds :
          LET match == GetMatchDetails(redis, id, now)
          IN  match # Nil => now <= match.CreatedAt + 7 * 24
    /\ \A u \in Users :
          LET matches == GetMatchesForUser(redis, u, ByID(redis, now), now)
          IN  \A k \in 1..Len(matches) : now <= matches[k].CreatedAt + 7 * 24

\* C12: a request of UpdateMatchStatus with a status other than pending,
\* accepted and rejected is answered 400, one with such a status for a
\* match that is absent or expired 404, both without a write to the store;
\* only a request with one of the three for a match in the store goes on
\* to write; every stored match has one of the three as its status.
C12_OnlyValidStatus ==
    [][/\ \A k \in StoredMatches(redis') :
             redis'[k].val.status \in {"pending", "accepted", "rejected"}
       /\ (upd.pc = "idle" /\ upd'.pc # "idle") =>
             LET valid == upd'.status \in {"pending", "accepted", "rejected"}
                 match == GetMatchDetails(redis, upd'.matchID, now)
             IN  /\ redis' = redis
                 /\ ~valid => upd'.pc = "return" /\ upd'.result.code = 400
                 /\ (valid /\ match = Nil) =>
                       upd'.pc = "return" /\ upd'.result.code = 404
                 /\ upd'.pc = "set" => valid /\ match # Nil]_vars

\* a request to accept a match that was stored and published and whose 7
\* days have run out is answered 404
C12_Witness ==
    /\ upd.pc = "return"
    /\ upd.status = "accepted"
    /\ upd.result.code = 404
    /\ \E i \in 1..Len(outTopic) : outTopic[i].Key = upd.matchID
    /\ now > 7 * 24

\* C13: when UpdateMatchStatus has written, GetMatchDetails of the match
\* returns the status of the request, an update time not before the one
\* the match had, and the id, users, score, common tags and skills and
\* creation time the match had; every other match is as it was.
C13_StatusUpdateFrame ==
    [][(upd.pc = "set" /\ upd'.pc = "return" /\ upd'.result.code = 200) =>
          LET key == <<MatchPrefix, upd.matchID>>
              old == RedisGet(redis, key, now)
              new == RedisGet(redis', key, now')
          IN  /\ new # Nil
              /\ GetMatchDetails(redis', upd.matchID, now').Status = upd.status
              /\ old # Nil =>
                    /\ new.updated_at >= old.updated_at
                    /\ new.id = old.id
                    /\ new.user_id_1 = old.user_id_1
                    /\ new.user_id_2 = old.user_id_2
                    /\ new.score = old.score
                    /\ new.common_tags = old.common_tags
                    /\ new.common_skills = old.common_skills
                    /\ new.created_at = old.created_at
              /\ \A k \in StoredMatches(redis) \cup StoredMatches(redis') :
                    k # key =>
                        /\ k \in DOMAIN redis
                        /\ k \in DOMAIN redis'
                        /\ redis'[k] = redis[k]]_vars

\* a match with common skills has been accepted some days after it was
\* created, next to another match of the same users that is still pending
C13_Witness ==
    \E k1, k2 \in StoredMatches(redis) :
        /\ redis[k1].val.status = "accepted"
        /\ redis[k1].val.updated_at > redis[k1].val.created_at
        /\ redis[k1].val.common_skills # <<>>
        /\ redis[k2].val.status = "pending"
        /\ redis[k2].val.user_id_1 = redis[k1].val.user_id_1
        /\ redis[k2].val.updated_at = redis[k2].val.created_at

\* C14: a failed StoreMatch does not end the batch. A step of the loop
\* over the matches, in ProcessUserUpdate and in CreateUserProfile alike,
\* hands the match at the index to the store (the store then holds it, or
\* the write failed and the store is as it was) and moves to the next
\* index with the same batch; after the last match the consumer goes on
\* to publish the whole batch and the handler answers 201. No index is
\* tried twice and no failure returns an error.
C14_BatchNotAborted ==
    [][\A t \in Threads :
            (proc[t].pc = "persist" /\ proc'[t] # proc[t]) =>
                LET match == proc[t].matches[proc[t].i]
                IN  /\ \/ redis' = redis
                       \/ redis' = RedisSet(redis, <<MatchPrefix, match.ID>>,
                                            MarshalMatch(match), MatchTTL, now)
                    /\ IF proc[t].i < Len(proc[t].matches)
                       THEN /\ proc'[t].pc = "persist"
                            /\ proc'[t].i = proc[t].i + 1
                            /\ proc'[t].matches = proc[t].matches
                       ELSE IF t = "consumer"
                       THEN /\ proc'[t].pc = "publish"
                            /\ proc'[t].matches = proc[t].matches
                       ELSE /\ proc'[t].pc = "return"
                            /\ proc'[t].result.code = 201]_vars

\* the consumer has failed to store the first match of a batch and has
\* stored the second
C14_Witness ==
    \E k \in 1..(Len(steps) - 1) :
        /\ steps[k][1] = "persist" /\ steps[k][3] = FALSE
        /\ steps[k + 1][1] = "persist" /\ steps[k + 1][3] = TRUE
        /\ steps[k + 1][2] # steps[k][2]
        /\ <<MatchPrefix, steps[k][2]>> \notin DOMAIN redis
        /\ <<MatchPrefix, steps[k + 1][2]>> \in DOMAIN redis

C16_CountsCreatedRecords ==
    [][(proc["api"].pc = "persist" /\ proc'["api"].pc = "return") =>
            proc'["api"].result.matches_found =
                Cardinality({k \in 1..Len(proc["api"].matches) :
                    <<MatchPrefix, proc["api"].matches[k].ID>>
                        \in StoredMatches(redis')})]_vars

\* the years between the experiences of the two profiles in hand
YearsApart ==
    LET a == proc["api"].userProfile.Experience
        b == proc["api"].profile.Experience
    IN  IF a >= b THEN a - b ELSE b - a

\* C21: the experience sub-score is 1.0 for experiences at most 2 years
\* apart, 0.7 for more than 2 and at most 5, 0.4 for more than 5 and at
\* most 10, and 0.1 beyond, whichever profile comes first.
C21_ExperienceSteps ==
    proc["api"].pc = "compared" =>
        /\ proc["api"].result.experience =
                (CASE YearsApart <= 2 -> FLit(1, 1)
                   [] YearsApart > 2 /\ YearsApart <= 5 -> FLit(7, 10)
                   [] YearsApart > 5 /\ YearsApart <= 10 -> FLit(4, 10)
                   [] YearsApart > 10 -> FLit(1, 10))
        /\ proc["api"].result.experienceSwapped = proc["api"].result.experience

\* experiences exactly 10 years apart score 0.4
C21_Witness ==
    /\ proc["api"].pc = "compared"
    /\ YearsApart = 10
    /\ proc["api"].result.experience = FLit(4, 10)

\* a location as it is compared: lower case, outer spaces removed
Normal(loc) == ToLower(TrimSpace(loc))

\* the cities and states a location names: its comma-delimited segments
\* that are not empty
Places(loc) ==
    {TrimSpace(part) : part \in Range(Split(Normal(loc), ","))} \ {<<>>}

\* C22: the location sub-score is 0.5 when either location is empty,
\* else 1.0 when the two are equal up to case and outer spaces, else 0.8
\* when they have a city or a state in common, else 0.2: two locations
\* with no city or state in common never score 0.8.
C22_LocationSteps ==
    proc["api"].pc = "compared" =>
        LET loc1 == proc["api"].userProfile.Location
            loc2 == proc["api"].profile.Location
        IN  proc["api"].result.location =
                (IF loc1 = <<>> \/ loc2 = <<>> THEN FLit(5, 10)
                 ELSE IF Normal(loc1) = Normal(loc2) THEN FLit(1, 1)
                 ELSE IF Places(loc1) \cap Places(loc2) # {} THEN FLit(8, 10)
                 ELSE FLit(2, 10))

\* the same sets of tags, industries and skills up to case
SameSet(list1, list2) ==
    /\ list1 # <<>>
    /\ {ToLower(x) : x \in Range(list1)} = {ToLower(x) : x \in Range(list2)}

\* the two profiles in hand have the same non-empty sets, the same
\* non-empty location and the same experience
Alike ==
    LET a == proc["api"].userProfile
        b == proc["api"].profile
    IN  /\ SameSet(a.Tags, b.Tags)
        /\ SameSet(a.Industries, b.Industries)
        /\ SameSet(a.Skills, b.Skills)
        /\ a.Location # <<>>
        /\ a.Location = b.Location
        /\ a.Experience = b.Experience

\* C23: two profiles with the same non-empty tags, industries and
\* skills, the same non-empty location and the same experience score
\* exactly 1.0, which is above the threshold of FindMatches.
C23_AlikeScoreOne ==
    (proc["api"].pc = "scored" /\ Alike) =>
        /\ proc["api"].result.score = FLit(1, 1)
        /\ FGt(proc["api"].result.score, ZeroPointThree)

\* two such profiles are scored, their tags under different casings
C23_Witness ==
    /\ proc["api"].pc = "scored"
    /\ Alike
    /\ proc["api"].result.score = FLit(1, 1)
    /\ Len(proc["api"].profile.Tags) > 1

\* the score of the k-th profile FindMatches read against the user's
CandidateScore(k) ==
    Score(build, proc["api"].userProfile, proc["api"].profiles[k])

\* the candidates FindMatches did not return
Discarded ==
    {k \in Candidates("api") :
        \A j \in 1..Len(proc["api"].matches) :
            proc["api"].matches[j].UserID2 # proc["api"].profiles[k].UserID}

\* C24: FindMatches returns its matches with no score below a later one;
\* with more than 10 candidates above 0.3 it returns 10, else all of
\* them, and no candidate left out scores strictly above a match
\* returned.
C24_TopTenSorted ==
    proc["api"].pc = "found" =>
        LET matches == proc["api"].matches
        IN  /\ \A k \in 1..(Len(matches) - 1) :
                  ~FGt(matches[k + 1].Score, matches[k].Score)
            /\ Len(matches) = IF Cardinality(Candidates("api")) > 10 THEN 10
                              ELSE Cardinality(Candidates("api"))
            /\ \A k \in Discarded, j \in 1..Len(matches) :
                  ~FGt(CandidateScore(k), matches[j].Score)

\* 12 candidates, the lowest of them read first and left out of the 10
\* returned
C24_Witness ==
    /\ proc["api"].pc = "found"
    /\ Cardinality(Candidates("api")) = 12
    /\ Len(proc["api"].matches) = 10
    /\ 1 \in Discarded
    /\ FGt(proc["api"].matches[10].Score, CandidateScore(1))

\* the elements of a list in lower case
Lowered(list) == {ToLower(x) : x \in Range(list)}

\* C25: every match FindMatches returns for a user names the user first
\* and a profile it read second, carries the score of the two profiles,
\* the tags and the skills the two have in common up to case, the status
\* pending, and an id no other match of the result has.
C25_MatchFields ==
    proc["api"].pc = "found" =>
        LET matches == proc["api"].matches
            user    == proc["api"].userProfile
        IN  \A k \in 1..Len(matches) :
                /\ matches[k].UserID1 = proc["api"].userID
                /\ matches[k].UserID2 # proc["api"].userID
                /\ \E c \in 1..Len(proc["api"].profiles) :
                      LET candidate == proc["api"].profiles[c]
                      IN  /\ matches[k].UserID2 = candidate.UserID
                          /\ matches[k].Score = CandidateScore(c)
                          /\ Lowered(matches[k].CommonTags) =
                                Lowered(user.Tags) \cap Lowered(candidate.Tags)
                          /\ Lowered(matches[k].CommonSkills) =
                                Lowered(user.Skills) \cap Lowered(candidate.Skills)
                /\ matches[k].Status = "pending"
                /\ \A j \in 1..Len(matches) :
                      j # k => matches[j].ID # matches[k].ID

\* two matches returned, one with a tag and two skills in common
C25_Witness ==
    /\ proc["api"].pc = "found"
    /\ Len(proc["api"].matches) >= 2
    /\ \E k \in 1..Len(proc["api"].matches) :
          /\ Len(proc["api"].matches[k].CommonTags) = 1
          /\ Len(proc["api"].matches[k].CommonSkills) = 2

\* what is common to two lists is given as the second list has it: the
\* elements of the second list, in its order and its casing, that the
\* first list has in some casing
GivenAsSecond(common, list1, list2) ==
    /\ \A i \in 1..Len(common) :
          /\ common[i] \in Range(list2)
          /\ ToLower(common[i]) \in Lowered(list1)
    /\ \A x \in Range(list2) :
          ToLower(x) \in Lowered(list1) => x \in Range(common)

\* C26: the common tags and the common skills of a match are the
\* elements of the candidate's list, in the candidate's casing, that the
\* user's list has in some casing, and nothing else.
C26_CommonInSecondCasing ==
    proc["api"].pc = "found" =>
        \A k \in 1..Len(proc["api"].matches) :
            \E c \in 1..Len(proc["api"].profiles) :
                /\ proc["api"].profiles[c].UserID = proc["api"].matches[k].UserID2
                /\ GivenAsSecond(proc["api"].matches[k].CommonTags,
                                 proc["api"].userProfile.Tags,
                                 proc["api"].profiles[c].Tags)
                /\ GivenAsSecond(proc["api"].matches[k].CommonSkills,
                                 proc["api"].userProfile.Skills,
                                 proc["api"].profiles[c].Skills)

\* a user with the tag ml and the skill sql is matched with a candidate
\* who has ML and SQL: the match carries ML and SQL
C26_Witness ==
    /\ proc["api"].pc = "found"
    /\ proc["api"].userProfile.Tags = <<ml>>
    /\ sql \in Range(proc["api"].userProfile.Skills)
    /\ \E k \in 1..Len(proc["api"].matches) :
          /\ proc["api"].matches[k].CommonTags = <<ML>>
          /\ proc["api"].matches[k].CommonSkills = <<SQL, go>>

\* the live matches of the store that name the user, first or second
MatchesOf(u) ==
    {match \in {UnmarshalMatch(redis[key].val) :
                    key \in {k \in StoredMatches(redis) : now <= redis[k].exp}} :
        u \in {match.UserID1, match.UserID2}}

\* C27: GetMatchesForUser returns each live match that names the user,
\* first or second, once, no other match, and no score below a later one.
C27_ListsMembersOnly ==
    \A u \in Users, keys \in {ByID(redis, now), ByIDReversed(redis, now)} :
        LET listed == GetMatchesForUser(redis, u, keys, now)
        IN  /\ Range(listed) = MatchesOf(u)
            /\ Len(listed) = Cardinality(MatchesOf(u))
            /\ \A k \in 1..(Len(listed) - 1) :
                  ~FGt(listed[k + 1].Score, listed[k].Score)

\* u1 is listed two matches, the one FindMatches made for u2 ahead of
\* the older one FindMatches made for u1, and u3 is listed none
C27_Witness ==
    LET listed == GetMatchesForUser(redis, "u1", ByID(redis, now), now)
    IN  /\ Len(listed) = 2
        /\ listed[1].UserID2 = "u1"
        /\ listed[2].UserID1 = "u1"
        /\ listed[1].ID > listed[2].ID
        /\ FGt(listed[1].Score, listed[2].Score)
        /\ GetMatchesForUser(redis, "u3", ByID(redis, now), now) = <<>>

\* the request GetMatches has answered, or SearchMatches
Answered(handler) ==
    /\ proc["api"].pc = "return"
    /\ "handler" \in DOMAIN proc["api"].request
    /\ proc["api"].request.handler = handler
    /\ "error" \notin DOMAIN proc["api"].result

\* the matches of the user of the request that have the status of the
\* request, highest score first
Wanted ==
    LET request == proc["api"].request
        listed  == GetMatchesForUser(redis, request.UserID, proc["api"].keys, now)
    IN  IF request.Status = "" THEN listed
        ELSE SelectSeq(listed, LAMBDA m : m.Status = request.Status)

\* C28: GetMatches filters by status and then cuts the page.  For a
\* limit and an offset that are not negative the answer is 200, total is
\* the number of matches of the user with the status of the request (of
\* all of them without one), and the page holds the places offset to
\* min(offset + limit, total) - 1 of that list, none when offset >= total.
C28_FilterThenPage ==
    (/\ Answered("GetMatches")
     /\ proc["api"].request.Limit >= 0
     /\ proc["api"].request.Offset >= 0) =>
        LET from  == proc["api"].request.Offset
            to    == proc["api"].request.Offset + proc["api"].request.Limit
            total == Len(Wanted)
        IN  /\ proc["api"].result.code = 200
            /\ proc["api"].result.total = total
            /\ proc["api"].result.matches =
                    IF from >= total THEN <<>>
                    ELSE SubSeq(Wanted, from + 1, IF to > total THEN total ELSE to)

\* C29: SearchMatches answers an offset that is negative, or at or
\* beyond the number of results that qualify, with an empty page,
\* whatever the limit.
C29_SearchPageSafe ==
    (/\ Answered("SearchMatches")
     /\ \/ proc["api"].request.criteria.Offset < 0
        \/ proc["api"].request.criteria.Offset >= Len(proc["api"].matches)) =>
        /\ proc["api"].result.code = 200
        /\ proc["api"].result.matches = <<>>

\* a profile passes the filters of the criteria that are given: a list
\* that is not empty, a bound above 0, a location that is not empty
Passes(profile, criteria) ==
    /\ criteria.Industries # <<>> =>
          Lowered(criteria.Industries) \cap Lowered(profile.Industries) # {}
    /\ criteria.MinExp > 0 => criteria.MinExp <= profile.Experience
    /\ criteria.MaxExp > 0 => profile.Experience <= criteria.MaxExp
    /\ criteria.Skills # <<>> =>
          Lowered(criteria.Skills) \cap Lowered(profile.Skills) # {}
    /\ criteria.Location # <<>> =>
          \E i \in 1..Len(profile.Location) :
              \E j \in i..Len(profile.Location) :
                  ToLower(SubSeq(profile.Location, i, j)) = ToLower(criteria.Location)

\* the profiles in the store
Profiles ==
    {UnmarshalProfile(redis[key].val) :
        key \in {k \in StoredProfiles(redis) : now <= redis[k].exp}}

\* C30: every entry SearchMatches returns is a user other than the
\* requester, whose profile passes every filter given (industries and
\* skills by an element in common, experience within the bounds, ends
\* included, location by containing the one asked for, all up to case)
\* and scores above 0.3 against the requester's; a min_exp above the
\* experience of every profile gives no entry and total 0.
C30_SearchFiltered ==
    (Answered("SearchMatches") /\ proc["api"].result.code = 200) =>
        LET criteria  == proc["api"].request.criteria
            requester == GetUserProfile(redis, criteria.UserID, now)
            entries   == proc["api"].result.matches
        IN  /\ \A k \in 1..Len(entries) :
                  /\ entries[k].UserID # criteria.UserID
                  /\ \E profile \in Profiles :
                        /\ profile.UserID = entries[k].UserID
                        /\ Passes(profile, criteria)
                        /\ entries[k].Score = Score(build, requester, profile)
                  /\ FGt(entries[k].Score, ZeroPointThree)
            /\ (\A profile \in Profiles : profile.Experience < criteria.MinExp) =>
                  /\ entries = <<>>
                  /\ proc["api"].result.total = 0

\* a search with every filter given returns a user and leaves out
\* another who scores above 0.3 against the requester
C30_Witness ==
    /\ Answered("SearchMatches")
    /\ proc["api"].result.code = 200
    /\ LET criteria == proc["api"].request.criteria
       IN  /\ criteria.Industries # <<>>
           /\ criteria.MinExp > 0
           /\ criteria.MaxExp > 0
           /\ criteria.Skills # <<>>
           /\ criteria.Location # <<>>
           /\ Len(proc["api"].result.matches) = 1
           /\ \E profile \in Profiles :
                 /\ profile.UserID # criteria.UserID
                 /\ profile.UserID # proc["api"].result.matches[1].UserID
                 /\ FGt(Score(build, GetUserProfile(redis, criteria.UserID, now),
                               profile), ZeroPointThree)

\* the scores of a list do not increase along it
NonIncreasing(list) ==
    \A k \in 1..(Len(list) - 1) : ~FGt(list[k + 1].Score, list[k].Score)

\* C31: SearchMatches returns its results with scores that do not
\* increase, and with a limit above 0 and an offset from 0 to below n, the
\* number of users who pass the filters and score above 0.3, the page
\* holds the places offset to min(offset + limit, n) - 1 of that order.
C31_SearchSortedPage ==
    Answered("SearchMatches") =>
        LET criteria == proc["api"].request.criteria
            ordered  == proc["api"].matches
            n        == Len(ordered)
            to       == criteria.Offset + criteria.Limit
        IN  /\ NonIncreasing(ordered)
            /\ proc["api"].result.code = 200 =>
                  NonIncreasing(proc["api"].result.matches)
            /\ (criteria.Limit > 0 /\ 0 <= criteria.Offset /\ criteria.Offset < n) =>
                  /\ proc["api"].result.code = 200
                  /\ proc["api"].result.matches =
                        SubSeq(ordered, criteria.Offset + 1, IF to > n THEN n ELSE to)

\* the reason in hand names the factor
Listed(factor) ==
    \E k \in 1..Len(proc["api"].result.reason) :
        proc["api"].result.reason[k].reason = factor

\* the four factors that apply to the two profiles in hand
Factors ==
    LET profile1 == proc["api"].userProfile
        profile2 == proc["api"].profile
    IN  (IF Lowered(profile1.Tags) \cap Lowered(profile2.Tags) # {}
         THEN {"Common interests"} ELSE {})
        \cup (IF Lowered(profile1.Skills) \cap Lowered(profile2.Skills) # {}
              THEN {"Common skills"} ELSE {})
        \cup (IF profile1.Experience - profile2.Experience \in -2..2
              THEN {"Similar experience level"} ELSE {})
        \cup (IF /\ profile1.Location # <<>>
                 /\ profile2.Location # <<>>
                 /\ ToLower(profile1.Location) = ToLower(profile2.Location)
              THEN {"Same location"} ELSE {})

\* C32: the reason of a search result lists a factor exactly when it
\* applies: common tags when the two tag lists share a tag, common skills
\* when the skill lists share a skill, similar experience level when the
\* experiences are at most 2 apart, same location when both locations
\* are given and equal up to case; it is "Good overall compatibility"
\* exactly when none of the four applies.
C32_ReasonListsFactors ==
    proc["api"].pc = "explained" =>
        /\ \A factor \in {"Common interests", "Common skills",
                           "Similar experience level", "Same location"} :
               Listed(factor) <=> factor \in Factors
        /\ Listed("Good overall compatibility") <=> Factors = {}
        /\ Factors = {} => Len(proc["api"].result.reason) = 1

\* no factor applies to experiences 3 years apart and locations equal up
\* to outer spaces only, and the reason is the general one
C32_Witness ==
    /\ proc["api"].pc = "explained"
    /\ Listed("Good overall compatibility")
    /\ proc["api"].profile.Experience = 4
    /\ proc["api"].profile.Location = SanFranciscoTyped
    /\ proc["api"].userProfile.Location = SanFrancisco
    /\ proc["api"].userProfile.Tags # <<>>
    /\ proc["api"].profile.Tags # <<>>

\* the handler has just answered a request that named a record
Looked(handler) ==
    /\ proc["api"].pc = "idle"
    /\ proc["api"]'.pc = "return"
    /\ proc["api"]'.request.handler = handler
    /\ proc["api"]'.result.code # 400

\* C33: the lookups by id tell the kinds of error apart.  GetUserProfile,
\* GetMatchDetails and UpdateMatchStatus answer 404 only when the record
\* is absent or has expired, and answer a call to the store that failed
\* with a 5xx, not with 404.
C33_ErrorKinds ==
    [][/\ Looked("GetUserProfile") =>
            /\ proc["api"]'.result.code = 404 =>
                  GetUserProfile(redis, proc["api"]'.request.UserID, now) = Nil
            /\ faults' # faults => proc["api"]'.result.code >= 500
       /\ Looked("GetMatchDetails") =>
            /\ proc["api"]'.result.code = 404 =>
                  GetMatchDetails(redis, proc["api"]'.request.MatchID, now) = Nil
            /\ faults' # faults => proc["api"]'.result.code >= 500
       /\ (upd.pc = "idle" /\ upd'.pc = "return" /\ upd'.result.code # 400) =>
            /\ upd'.result.code = 404 =>
                  GetMatchDetails(redis, upd'.matchID, now) = Nil
            /\ faults' # faults => upd'.result.code >= 500]_vars

C35_PublishedWerePersisted ==
    [][outTopic' # outTopic =>
          \E k \in 1..Len(steps) :
              steps[k] = <<"persist", outTopic'[Len(outTopic')].Key, TRUE>>]_vars

\* the consumer has gone through the event in hand without an error, no
\* request was made, no call failed and no time passed
Processed ==
    /\ proc["consumer"].pc = "return"
    /\ proc["consumer"].result = Succeeded("consumer", <<>>)
    /\ calls = 0
    /\ faults = 0
    /\ now = 0

\* the matches FindMatches generated for the event in hand are made of
\* the event's user and the given profile
GeneratedFrom(userID, profile) ==
    \A k \in 1..Len(steps) :
        steps[k][1] = "gen" =>
            \A i \in 1..Len(steps[k][3]) :
                LET match == GetMatchDetails(redis, steps[k][3][i], now)
                    other == GetUserProfile(redis, match.UserID2, now)
                IN  /\ match.UserID1 = userID
                    /\ match.Score = Score(build, profile, other)
                    /\ match.CommonTags = FindCommonTags(profile.Tags, other.Tags)
                    /\ match.CommonSkills =
                          FindCommonSkills(profile.Skills, other.Skills)

\* C36: once an event is processed, the profile stored for the user the
\* event names is the snapshot the event carries, and the matches
\* generated are those of that snapshot, whether or not the snapshot's
\* own user id is the one the event names.
C36_SnapshotStoredForSubject ==
    Processed =>
        /\ GetUserProfile(redis, steps[1][2].UserID, now) = steps[1][2].Profile
        /\ GeneratedFrom(steps[1][2].UserID, steps[1][2].Profile)

\* the match is made of the given profile and a profile of the user it
\* names second
MadeOf(match, profile) ==
    \E i \in 1..Len(Pool) :
        LET other == NewProfile(match.UserID2, Pool[i])
        IN  /\ match.Score = Score(build, profile, other)
            /\ match.CommonTags = FindCommonTags(profile.Tags, other.Tags)
            /\ match.CommonSkills = FindCommonSkills(profile.Skills, other.Skills)

\* the activation t returns from FindMatches with matches in this step
Generates(t) ==
    /\ proc[t].pc \in {"keys", "scan"}
    /\ proc'[t].pc = "persist"

\* C37: the matches one request or one event creates are scored against
\* the profile that request or event carried, whatever else is written
\* for the same user between the write of the profile and FindMatches.
C37_ScoredAgainstSubmitted ==
    [][\A t \in Threads :
          Generates(t) =>
              \A k \in 1..Len(proc'[t].matches) :
                  MadeOf(proc'[t].matches[k], proc[t].profile)]_vars

\* the activation t takes this step and the call it makes fails
FailsAt(t, stages) ==
    /\ proc[t].pc \in stages
    /\ proc'[t] # proc[t]
    /\ \/ faults' # faults
       \/ /\ proc[t].pc = "get"
          /\ GetUserProfile(redis, proc[t].userID, now) \in {Nil, DecodeError}

\* the activation t is over with the error of the stage, and the step
\* wrote no match, drew no id and published nothing
StopsWith(t, stage) ==
    /\ proc'[t].pc = "return"
    /\ proc'[t].result = Failed(t, stage)
    /\ proc'[t].matches = <<>>
    /\ t = "api" => proc'[t].result.code \in 500..599
    /\ StoredMatches(redis') = StoredMatches(redis)
    /\ nextId' = nextId
    /\ outTopic' = outTopic

\* C38: when the write of the profile fails, CreateUserProfile and
\* ProcessUserUpdate stop there: FindMatches is not run, no match is
\* stored and none published.  When FindMatches fails, nothing is stored
\* or published either.  CreateUserProfile answers both with a 5xx.
C38_FailureStops ==
    [][\A t \in Threads :
          /\ FailsAt(t, {"store"}) => StopsWith(t, "store") /\ redis' = redis
          /\ FailsAt(t, {"get", "keys"}) => StopsWith(t, "find") /\ redis' = redis]_vars

\* CreateUserProfile has answered 500 to a request whose profile could
\* not be written, with a profile of another user in the store and none
\* for the user of the request
C38_Witness ==
    /\ proc["api"].pc = "return"
    /\ proc["api"].result = Failed("api", "store")
    /\ StoredProfiles(redis) # {}
    /\ StoredMatches(redis) = {}
    /\ \A u \in {"u1", "u3"} : <<ProfilePrefix, u>> \notin DOMAIN redis
    /\ outTopic = <<>>

\* the criteria of a search without a filter and without pagination
Unfiltered(userID) ==
    [UserID |-> userID, Tags |-> <<>>, Industries |-> <<>>, MinExp |-> 0,
     MaxExp |-> 0, Skills |-> <<>>, Location |-> <<>>, Limit |-> 0,
     Offset |-> 0]

\* the profiles of the store, in the order of the users
AllProfiles ==
    LET keys == Ascending(RedisKeys(redis, ProfilePrefix, now))
    IN  <<>> \o [k \in 1..Len(keys) |-> UnmarshalProfile(RedisGet(redis, keys[k], now))]

\* the users and scores of a list of matches, and of a list of search
\* results
MatchPairs(matches) ==
    {<<matches[k].UserID2, matches[k].Score>> : k \in 1..Len(matches)}

ScorePairs(scores) ==
    {<<scores[k].UserID, scores[k].Score>> : k \in 1..Len(scores)}

\* C39: over the same profiles, for a user with a live profile, a search
\* without filters and without pagination returns the users and scores
\* FindMatches has before it cuts its list; when at most 10 users score
\* above 0.3 the users and scores of the search are those of the matches
\* FindMatches returns.
C39_SearchSameAsFindMatches ==
    /\ (/\ Answered("SearchMatches")
        /\ proc["api"].result.code = 200
        /\ proc["api"].request.criteria = Unfiltered(proc["api"].userID)) =>
           LET userID      == proc["api"].userID
               userProfile == GetUserProfile(redis, userID, now)
               found       == ScorePairs(proc["api"].result.matches)
           IN  /\ found = MatchPairs(AppendMatches(build, userID, userProfile,
                                                   AllProfiles, nextId, now))
               /\ Len(proc["api"].result.matches) = Cardinality(found)
               /\ Cardinality(found) <= MaxMatches =>
                     found = MatchPairs(RankMatches(build, userID, userProfile,
                                                    AllProfiles, nextId, now))
    /\ proc["api"].pc = "found" =>
           LET searched == SearchScores(build, proc["api"].userProfile, AllProfiles,
                                        Unfiltered(proc["api"].userID))
           IN  /\ MatchPairs(proc["api"].matches) \subseteq ScorePairs(searched)
               /\ Len(proc["api"].matches) =
                     IF Len(searched) > MaxMatches THEN MaxMatches ELSE Len(searched)
               /\ Len(searched) <= MaxMatches =>
                     MatchPairs(proc["api"].matches) = ScorePairs(searched)

\* a search without filters and pagination has returned more users than
\* FindMatches keeps, at two different scores
C39_Witness ==
    /\ Answered("SearchMatches")
    /\ proc["api"].result.code = 200
    /\ proc["api"].request.criteria = Unfiltered(proc["api"].userID)
    /\ Len(proc["api"].result.matches) > MaxMatches
    /\ Cardinality({proc["api"].result.matches[k].Score :
                        k \in 1..Len(proc["api"].result.matches)}) = 2

\* the page is a run of consecutive places of the list
Contiguous(page, list) ==
    \E from \in 0..Len(list) :
        /\ from + Len(page) <= Len(list)
        /\ page = SubSeq(list, from + 1, from + Len(page))

\* C40: GetMatches answers every limit and every offset, negative ones
\* too, without a failure: when the matches could be read the answer is
\* 200 and its page is a run of consecutive places of the filtered list,
\* of at most max(limit, 0) matches.
C40_AnyPageSafe ==
    Answered("GetMatches") =>
        /\ proc["api"].result.code = 200
        /\ Contiguous(proc["api"].result.matches, Wanted)
        /\ Len(proc["api"].result.matches) <=
              IF proc["api"].request.Limit > 0 THEN proc["api"].request.Limit ELSE 0

====
